---- MODULE Spec2Model ----
(***************************************************************************)
(* A model of the repository ingestion pipeline of utils/upload_repo:      *)
(* the resilient transport (R2RClient._retry_request), the client calls    *)
(* built on it, the orchestrator (RepositoryLoader.load_repository) and    *)
(* main, and, each on its own, create_collection against a store, called  *)
(* by one client again and again or by two clients at once, the            *)
(* document identity (generate_document_id), two runs of the upload loop   *)
(* over one repository, the file selection (FileFilter.filter_files), the  *)
(* exclusion rule set and its matcher (FileFilter.__init__, _is_ignored),  *)
(* the import list of the metadata (MetadataExtractor.extract_imports),    *)
(* and the upload loop taken one request at a time, with an interrupt.     *)
(***************************************************************************)
EXTENDS Integers, Sequences, FiniteSets, TLC

VARIABLES
    rr_pc,        \* _retry_request: "loop" | "returned" | "raised"
    rr_attempt,   \* _retry_request: the loop variable `attempt`
    rr_trace,     \* _retry_request: requests made and sleeps taken, in order
    rr_result,    \* _retry_request: the response returned or the error raised
    pc,           \* main / load_repository: where the run is
    token,        \* R2RClient.token: None until authenticate has set it
    extract_kg,   \* load_repository: the extract_kg argument
    store,        \* the remote store: how many collections carry the target name
    files,        \* load_repository: the list filter_files returned
    stats,        \* load_repository: the statistics dict
    i,            \* load_repository: position of the upload loop in files (1-based)
    document_ids, \* load_repository: ids of the documents uploaded
    processed,    \* the files the upload loop has gone through, with the outcome of each
    upload_calls, \* upload loop: number of upload_document calls that sent a request
    gap,          \* upload loop: longest single sleep (ms) since the latest such call began
    prev_gap,     \* upload loop: value of gap when the latest such call began
    elapsed,      \* wait_for_ingestion: time.time() - start_time, in seconds
    statuses,     \* wait_for_ingestion: the statuses dict
    j,            \* wait_for_ingestion: position of the for loop in document_ids
    all_done,     \* wait_for_ingestion: the all_done flag
    ingestion_statuses, \* load_repository: <<what wait_for_ingestion returned>>, <<>> before
    issued,       \* kinds of request sent to the store so far
    phases,       \* the phases of load_repository entered so far, in order
    exit_code,    \* main: the code given to sys.exit, -1 while running
    kg_error,     \* load_repository: the statement of step 6 that raised, "" if none
    cc_pc,        \* create_collection called again and again: where the current call is
    cc_log,       \* create_collection: what each finished call saw and did, in order
    client,       \* two clients in create_collection: where each is, what it saw and did
    digest,       \* uuid.uuid5: the identifier of every name hashed so far
    id_calls,     \* generate_document_id: the calls made, with what each returned
    url,          \* two runs of the upload loop: the repo_url argument of both
    selected,     \* two runs: the relative paths of the files selected, in order
    run,          \* two runs: for each run, where it is and what it computed and sent
    docs,         \* the remote store: its documents, keyed by identifier
    after_first,  \* the number of documents in the store when run 1 ended, -1 before
    tree,         \* filter_files: the entries repo_path.rglob('*') yields, in order
    ff_k,         \* filter_files: position of the for loop in tree (1-based)
    valid_files,  \* filter_files: the list valid_files, as positions in tree
    skipped_ignored,   \* filter_files: the counter skipped_ignored
    skipped_extension, \* filter_files: the counter skipped_extension
    skipped_size,      \* filter_files: the counter skipped_size
    ff_log,       \* filter_files: what the loop did with each entry so far
    arg_patterns, \* FileFilter(...): the ignore_patterns argument
    gitignore,    \* FileFilter(...): the file repo_path/.gitignore
    fi_pc,        \* FileFilter(...): "new" before __init__ has run, "built" after
    ignore_patterns, \* FileFilter.ignore_patterns: the rule set
    probes,       \* FileFilter._is_ignored: the calls made, with what each returned
    objects,      \* the lists that outlive FileFilter(...): the argument, config.IGNORE_PATTERNS
    source_file,  \* build_metadata: the lines of the file, and where reading it fails
    language,     \* build_metadata: the language argument
    md_pc,        \* build_metadata: "start" before the call, "done" after
    metadata,     \* build_metadata: <<what the call returned or raised>>, <<>> before
    up_files,     \* upload loop, step by step: the relative paths of the files
    up_i,         \* upload loop: position of the for loop in up_files (1-based)
    up_pc,        \* upload loop: "next" | "attempt" | "backoff" | "rate" | "over" | "exit"
    up_attempt,   \* upload loop: the loop variable `attempt` of _retry_request
    file_pos,     \* upload_document: the read position of the open file object f
    requests_sent, \* upload loop: the HTTP requests sent so far, in order
    up_stats,     \* upload loop: files_uploaded and files_failed
    up_exit,      \* upload loop: the code the process exited with, -1 while running
    sent_at_interrupt \* number of requests sent when the interrupt arrived, -1 before

rrVars == <<rr_pc, rr_attempt, rr_trace, rr_result>>

waitVars == <<elapsed, statuses, j, all_done>>

loadVars ==
    <<pc, token, extract_kg, store, files, stats, i, document_ids, processed, upload_calls,
      gap, prev_gap, elapsed, statuses, j, all_done, ingestion_statuses, issued,
      phases, exit_code, kg_error>>

\* a run of the loader, the store's collections left out
runVars ==
    <<pc, token, extract_kg, files, stats, i, document_ids, processed, upload_calls,
      gap, prev_gap, elapsed, statuses, j, all_done, ingestion_statuses, issued,
      phases, exit_code, kg_error>>

collVars == <<cc_pc, cc_log, client>>

idVars == <<digest, id_calls>>

runsVars == <<url, selected, run, docs, after_first>>

filterVars ==
    <<tree, ff_k, valid_files, skipped_ignored, skipped_extension, skipped_size, ff_log>>

rulesVars == <<arg_patterns, gitignore, fi_pc, ignore_patterns, probes, objects>>

\* the rule set, the metadata and the upload of one file
metaVars == <<source_file, language, md_pc, metadata>>

uploadVars ==
    <<up_files, up_i, up_pc, up_attempt, file_pos, requests_sent, up_stats, up_exit,
      sent_at_interrupt>>

moreVars == <<rulesVars, metaVars, uploadVars>>

\* the variables of the components studied on their own
restVars == <<collVars, idVars, runsVars, filterVars, moreVars>>

\* the components beside create_collection
besideColl == <<idVars, runsVars, filterVars, moreVars>>

\* the components beside the document identity
besideId == <<collVars, runsVars, filterVars, moreVars>>

\* the components beside the runs of the upload loop
besideRuns == <<collVars, id_calls, filterVars, moreVars>>

\* the components beside the file filter
besideFilter == <<collVars, idVars, runsVars, moreVars>>

\* the components beside the rule set
besideRules == <<collVars, idVars, runsVars, filterVars, metaVars, uploadVars>>

\* the components beside the metadata
besideMeta == <<collVars, idVars, runsVars, filterVars, rulesVars, uploadVars>>

\* the components beside the upload loop taken step by step
besideUpload == <<collVars, idVars, runsVars, filterVars, rulesVars, metaVars>>

vars ==
    <<rr_pc, rr_attempt, rr_trace, rr_result, pc, token, extract_kg, store, files, stats, i,
      document_ids, processed, upload_calls, gap, prev_gap, elapsed, statuses, j,
      all_done, ingestion_statuses, issued, phases, exit_code, kg_error, restVars>>

(***************************************************************************)
(* Configuration (config.py)                                               *)
(***************************************************************************)
UPLOAD_DELAY_MS == 300

API_RETRY_ATTEMPTS_four == 3 + 1

API_RETRY_ATTEMPTS == 3

API_RETRY_BACKOFF == 2

\* response.text[:200]
TextLimit == 200

(***************************************************************************)
(* Bounds of the model                                                     *)
(***************************************************************************)
\* response bodies are 0, TextLimit or TextLimit + MaxExtraText characters long
MaxExtraText == 1

(***************************************************************************)
(* Helpers                                                                 *)
(***************************************************************************)
Min(a, b) == IF a <= b THEN a ELSE b

Max(a, b) == IF a >= b THEN a ELSE b

RECURSIVE Pow2(_)
Pow2(n) == IF n <= 0 THEN 1 ELSE 2 * Pow2(n - 1)

\* Python's s[:n]
Slice(s, n) == SubSeq(s, 1, Min(n, Len(s)))

\* a body of n characters
Text(n) == [k \in 1..n |-> k % 10]

(***************************************************************************)
(* The server as _retry_request sees it: each attempt ends in an HTTP      *)
(* response (status_code, text) or in requests.RequestException.           *)
(***************************************************************************)
HttpResponse(code, text) == [exc |-> FALSE, status_code |-> code, text |-> text]

RequestException == [exc |-> TRUE, status_code |-> 0, text |-> <<>>]

StatusCodes == {200, 201, 202, 204, 299, 400, 404, 429, 499, 500, 503}

TextLengths == {0, TextLimit, TextLimit + MaxExtraText}

Responses ==
    {HttpResponse(c, Text(n)) : c \in StatusCodes, n \in TextLengths}
        \cup {RequestException}

(***************************************************************************)
(* R2RClientError: one exception class; what differs is the message.       *)
(***************************************************************************)
R2RClientError(fmt, n, text) ==
    [cls |-> "R2RClientError", fmt |-> fmt, n |-> n, text |-> text]

NoError == [cls |-> "", fmt |-> "", n |-> 0, text |-> <<>>]

NoResponse == [exc |-> FALSE, status_code |-> 0, text |-> <<>>]

(***************************************************************************)
(* _retry_request, the classification of one response (lines 58-78)        *)
(***************************************************************************)
IsSuccessCode(code) == code \in {200, 201, 202}

RateLimitWait_plain(attempt) == Pow2(attempt)

RateLimitWait(attempt) == Pow2(attempt) * API_RETRY_BACKOFF

ServerErrorWait_backoff(attempt) == Pow2(attempt) * API_RETRY_BACKOFF

ServerErrorWait(attempt) == Pow2(attempt)

IsClientError(code) == 400 <= code /\ code < 500

ClientErrorText_full(text) == text

ClientErrorText(text) == Slice(text, TextLimit)

\* line 72: raise R2RClientError(f"HTTP {status_code}: {text[:200]}")
ClientError(resp) ==
    R2RClientError("HTTP %d: %s", resp.status_code, ClientErrorText(resp.text))

\* line 83: raise R2RClientError(f"Request failed after {N} attempts: {e}")
RequestFailedError_asHttp ==
    R2RClientError("HTTP %d: %s", API_RETRY_ATTEMPTS, <<>>)

RequestFailedError ==
    R2RClientError("Request failed after %d attempts: %s", API_RETRY_ATTEMPTS, <<>>)

\* line 86: raise R2RClientError(f"Failed after {N} attempts")
FailedAfterError ==
    R2RClientError("Failed after %d attempts", API_RETRY_ATTEMPTS, <<>>)

\* what one pass through the loop body does with the answer to its request:
\* next is "return", "raise" or "continue"; slept lists the time.sleep calls
Outcome(next, slept, resp, err) ==
    [next |-> next, slept |-> slept, response |-> resp, error |-> err]

Attempt(attempt, resp) ==
    IF resp.exc
    THEN IF attempt = API_RETRY_ATTEMPTS - 1
         THEN Outcome("raise", <<>>, NoResponse, RequestFailedError)
         ELSE Outcome("continue", <<Pow2(attempt)>>, NoResponse, NoError)
    ELSE IF IsSuccessCode(resp.status_code)
    THEN Outcome("return", <<>>, resp, NoError)
    ELSE IF resp.status_code = 429
    THEN Outcome("continue", <<RateLimitWait(attempt)>>, resp, NoError)
    ELSE IF IsClientError(resp.status_code)
    THEN Outcome("raise", <<>>, resp, ClientError(resp))
    ELSE IF resp.status_code >= 500
    THEN Outcome("continue", <<ServerErrorWait(attempt)>>, resp, NoError)
    ELSE Outcome("continue", <<>>, resp, NoError)

\* one entry of rr_trace: the request of one attempt, its answer, the sleeps after it
TraceEntry(attempt, resp, slept) ==
    [attempt |-> attempt, exc |-> resp.exc, status_code |-> resp.status_code,
     slept |-> slept]

Result(kind, resp, err) == [kind |-> kind, response |-> resp, error |-> err]

NoResult == Result("none", NoResponse, NoError)

(***************************************************************************)
(* load_repository's statistics dict and the state before a run            *)
(***************************************************************************)
None == "None"

InitialStats ==
    [files_found |-> 0, files_uploaded |-> 0, files_failed |-> 0,
     collection_id |-> None, kg_entities |-> 0, kg_relationships |-> 0,
     duration_seconds |-> 0]

EmptyDict == [d \in {} |-> "pending"]

\* dict[key] = value
Put(dict, key, value) ==
    [d \in DOMAIN dict \cup {key} |-> IF d = key THEN value ELSE dict[d]]

LoadIdle ==
    /\ pc = "idle"
    /\ token = None
    /\ extract_kg = FALSE
    /\ store = 0
    /\ files = <<>>
    /\ stats = InitialStats
    /\ i = 1
    /\ document_ids = <<>>
    /\ processed = <<>>
    /\ upload_calls = 0
    /\ gap = 0
    /\ prev_gap = 0
    /\ elapsed = 0
    /\ statuses = EmptyDict
    /\ j = 1
    /\ all_done = TRUE
    /\ ingestion_statuses = <<>>
    /\ issued = {}
    /\ phases = <<>>
    /\ exit_code = -1
    /\ kg_error = ""

CollIdle ==
    /\ cc_pc = "idle"
    /\ cc_log = <<>>
    /\ client = <<>>

IdIdle ==
    /\ digest = EmptyDict
    /\ id_calls = <<>>

RunsIdle ==
    /\ url = <<>>
    /\ selected = <<>>
    /\ run = <<>>
    /\ docs = {}
    /\ after_first = -1

FilterIdle ==
    /\ tree = <<>>
    /\ ff_k = 1
    /\ valid_files = <<>>
    /\ skipped_ignored = 0
    /\ skipped_extension = 0
    /\ skipped_size = 0
    /\ ff_log = <<>>

NoPatterns == [none |-> TRUE, list |-> <<>>]

NoGitignore == [exists |-> FALSE, lines |-> <<>>]

RulesIdle ==
    /\ arg_patterns = NoPatterns
    /\ gitignore = NoGitignore
    /\ fi_pc = "new"
    /\ ignore_patterns = <<>>
    /\ probes = <<>>
    /\ objects = <<>>

NoFailure == -1

MetaIdle ==
    /\ source_file = [lines |-> <<>>, fail_at |-> NoFailure]
    /\ language = "unknown"
    /\ md_pc = "start"
    /\ metadata = <<>>

UploadIdle ==
    /\ up_files = <<>>
    /\ up_i = 1
    /\ up_pc = "over"
    /\ up_attempt = 0
    /\ file_pos = 0
    /\ requests_sent = <<>>
    /\ up_stats = [files_uploaded |-> 0, files_failed |-> 0]
    /\ up_exit = -1
    /\ sent_at_interrupt = -1

MoreIdle == RulesIdle /\ MetaIdle /\ UploadIdle

RestIdle == CollIdle /\ IdIdle /\ RunsIdle /\ FilterIdle /\ MoreIdle

(***************************************************************************)
(* _retry_request as a process: one action per pass through the loop       *)
(***************************************************************************)
RetryInit ==
    /\ rr_pc = "loop"
    /\ rr_attempt = 0
    /\ rr_trace = <<>>
    /\ rr_result = NoResult
    /\ LoadIdle
    /\ RestIdle

\* lines 54-84: one iteration of `for attempt in range(API_RETRY_ATTEMPTS)`
RetryAttempt ==
    /\ rr_pc = "loop"
    /\ rr_attempt < API_RETRY_ATTEMPTS
    /\ \E resp \in Responses :
          LET a == Attempt(rr_attempt, resp) IN
          /\ rr_trace' = Append(rr_trace, TraceEntry(rr_attempt, resp, a.slept))
          /\ rr_pc' = CASE a.next = "return" -> "returned"
                        [] a.next = "raise" -> "raised"
                        [] OTHER -> "loop"
          /\ rr_attempt' = IF a.next = "continue" THEN rr_attempt + 1 ELSE rr_attempt
          /\ rr_result' = CASE a.next = "return" -> Result("returned", a.response, NoError)
                            [] a.next = "raise" -> Result("raised", a.response, a.error)
                            [] OTHER -> rr_result
    /\ UNCHANGED <<loadVars, restVars>>

\* line 86: the loop ran out
RetryExhausted ==
    /\ rr_pc = "loop"
    /\ rr_attempt >= API_RETRY_ATTEMPTS
    /\ rr_pc' = "raised"
    /\ rr_result' = Result("raised", NoResponse, FailedAfterError)
    /\ UNCHANGED <<rr_attempt, rr_trace>>
    /\ UNCHANGED <<loadVars, restVars>>

RetryNext == RetryAttempt \/ RetryExhausted

SpecRetry == RetryInit /\ [][RetryNext]_vars

\* the interpreter keeps running the call until it returns or raises
SpecRetryFair == SpecRetry /\ WF_vars(RetryNext)

RetryDone == rr_pc \in {"returned", "raised"}

(***************************************************************************)
(* Claims about _retry_request                                             *)
(***************************************************************************)
Is2xx(e) == ~e.exc /\ e.status_code >= 200 /\ e.status_code <= 299

Is429(e) == ~e.exc /\ e.status_code = 429

IsOther4xx(e) ==
    ~e.exc /\ e.status_code >= 400 /\ e.status_code <= 499 /\ e.status_code # 429

Is5xx(e) == ~e.exc /\ e.status_code >= 500

\* attempt k+1 is what the call does next, and it ends only after making it
ThenRetries(k) ==
    /\ Len(rr_trace) = k => rr_pc = "loop" /\ rr_attempt = rr_trace[k].attempt + 1
                              /\ ENABLED RetryAttempt
    /\ RetryDone => Len(rr_trace) > k

StatusTrace == [k \in 1..Len(rr_trace) |-> rr_trace[k].status_code]

SleepTrace == [k \in 1..Len(rr_trace) |-> rr_trace[k].slept]

\* C3: every response with a status code in 200..299 is returned by the
\* attempt that received it, with no sleep and no further attempt.
C3_Every2xxIsReturnedAtOnce ==
    \A k \in 1..Len(rr_trace) :
        Is2xx(rr_trace[k]) =>
            /\ k = Len(rr_trace)
            /\ rr_pc = "returned"
            /\ rr_result.response.status_code = rr_trace[k].status_code
            /\ rr_trace[k].slept = <<>>

\* C4 as stated: a 429 at attempt k (0-based) is followed by one sleep of
\* exactly API_RETRY_BACKOFF * 2^k seconds and then by a retry, whatever k is.
C4_RateLimitedAlwaysRetries ==
    \A k \in 1..Len(rr_trace) :
        Is429(rr_trace[k]) =>
            /\ rr_trace[k].slept = <<API_RETRY_BACKOFF * Pow2(k - 1)>>
            /\ ThenRetries(k)

\* C4 as amended: a 429 at attempt k (0-based) is followed by one sleep of
\* exactly API_RETRY_BACKOFF * 2^k seconds; if k is not the last attempt the
\* call then retries, and if k is the last attempt the call makes no further
\* request and raises the "Failed after N attempts" error.  For the answers
\* 429, 429, 200 the call returns on the third attempt after sleeping 2 s and 4 s.
C4_RateLimitedBackoff ==
    /\ \A k \in 1..Len(rr_trace) :
          Is429(rr_trace[k]) =>
              /\ rr_trace[k].attempt = k - 1
              /\ rr_trace[k].slept = <<API_RETRY_BACKOFF * Pow2(k - 1)>>
              /\ k - 1 < API_RETRY_ATTEMPTS - 1 => ThenRetries(k)
              /\ k - 1 = API_RETRY_ATTEMPTS - 1 =>
                    /\ Len(rr_trace) = k
                    /\ RetryDone => rr_result = Result("raised", NoResponse, FailedAfterError)
    /\ (RetryDone /\ Len(rr_trace) = 3 /\ SubSeq(StatusTrace, 1, 2) = <<429, 429>>
            /\ rr_trace[3].status_code = 200 /\ ~rr_trace[3].exc) =>
          /\ rr_pc = "returned"
          /\ SleepTrace = << <<2>>, <<4>>, <<>> >>

C4_Witness ==
    /\ rr_pc = "returned"
    /\ StatusTrace = <<429, 429, 200>>
    /\ SleepTrace = << <<2>>, <<4>>, <<>> >>

\* C5: a 4xx answer other than 429, at any attempt, ends the call at once with
\* a client error: no sleep, no further request, and the error carries the
\* status code and the first min(200, length) characters of the body.
C5_ClientErrorIsImmediate ==
    \A k \in 1..Len(rr_trace) :
        IsOther4xx(rr_trace[k]) =>
            /\ k = Len(rr_trace)
            /\ rr_pc = "raised"
            /\ rr_trace[k].slept = <<>>
            /\ rr_result.error.cls = "R2RClientError"
            /\ rr_result.error.fmt = "HTTP %d: %s"
            /\ rr_result.error.n = rr_trace[k].status_code
            /\ Len(rr_result.error.text) = Min(200, Len(rr_result.response.text))
            /\ rr_result.error.text =
                  SubSeq(rr_result.response.text, 1, Len(rr_result.error.text))

C5_Witness ==
    /\ rr_pc = "raised"
    /\ Len(rr_trace) = 2
    /\ rr_trace[2].status_code = 404
    /\ Len(rr_result.response.text) > 200
    /\ Len(rr_result.error.text) = 200

\* every attempt was made and none ended in a 2xx or a non-retryable 4xx
ExhaustedRun ==
    /\ rr_pc = "raised"
    /\ Len(rr_trace) = API_RETRY_ATTEMPTS
    /\ \A k \in 1..Len(rr_trace) :
          rr_trace[k].exc \/ Is429(rr_trace[k]) \/ Is5xx(rr_trace[k])

\* the class of the error raised for a non-retryable 4xx
ClientErrorClass == ClientError(HttpResponse(404, <<>>)).cls

ClientErrorFormat == ClientError(HttpResponse(404, <<>>)).fmt

C7_ServerErrorBackoff ==
    \A k \in 1..Len(rr_trace) :
        /\ ((rr_trace[k].exc \/ Is5xx(rr_trace[k])) /\ k - 1 < API_RETRY_ATTEMPTS - 1) =>
              /\ rr_trace[k].attempt = k - 1
              /\ rr_trace[k].slept = <<Pow2(k - 1)>>
              /\ ThenRetries(k)
        /\ (rr_trace[k].exc /\ k - 1 = API_RETRY_ATTEMPTS - 1) =>
              /\ k = Len(rr_trace)
              /\ rr_pc = "raised"
              /\ rr_result.error.cls = "R2RClientError"
              /\ rr_result.error.fmt = "Request failed after %d attempts: %s"

C7_Witness ==
    /\ rr_pc = "raised"
    /\ Len(rr_trace) = 3
    /\ Is5xx(rr_trace[1]) /\ rr_trace[2].exc /\ rr_trace[3].exc
    /\ SleepTrace = << <<1>>, <<2>>, <<>> >>

\* C8: one call makes at least one and at most 3 requests and always ends,
\* returning a response or raising an error.
C8_BoundedRequestsAndTermination ==
    /\ [](Len(rr_trace) <= 3)
    /\ [](RetryDone => Len(rr_trace) >= 1 /\ rr_result.kind \in {"returned", "raised"})
    /\ <>RetryDone

C8_Witness ==
    /\ RetryDone
    /\ Len(rr_trace) = 3
    /\ rr_result.kind = "raised"

(***************************************************************************)
(* _retry_request as one call: the answers the server would give to the    *)
(* successive attempts are the script; the call consumes as many as it     *)
(* makes requests.                                                         *)
(***************************************************************************)
Call(kind, resp, err, requests, slept) ==
    [kind |-> kind, response |-> resp, error |-> err, requests |-> requests,
     slept |-> slept]

RECURSIVE RetryLoop(_, _, _, _)
RetryLoop(script, attempt, requests, slept) ==
    IF attempt >= API_RETRY_ATTEMPTS
    THEN Call("raised", NoResponse, FailedAfterError, requests, slept)
    ELSE LET a == Attempt(attempt, script[attempt + 1]) IN
         CASE a.next = "return" ->
                Call("returned", a.response, NoError, requests + 1, slept)
           [] a.next = "raise" ->
                Call("raised", a.response, a.error, requests + 1, slept \o a.slept)
           [] OTHER ->
                RetryLoop(script, attempt + 1, requests + 1, slept \o a.slept)

_retry_request(script) == RetryLoop(script, 0, 0, <<>>)

\* the answers of the store in a run of the loader (bodies left empty)
LoadStatusCodes == {200, 204, 404, 429, 500}

LoadResponses ==
    {HttpResponse(c, <<>>) : c \in LoadStatusCodes} \cup {RequestException}

Scripts == [1..API_RETRY_ATTEMPTS -> LoadResponses]

RECURSIVE SeqSum(_)
SeqSum(q) == IF q = <<>> THEN 0 ELSE Head(q) + SeqSum(Tail(q))

RECURSIVE SeqMax(_)
SeqMax(q) == IF q = <<>> THEN 0 ELSE Max(Head(q), SeqMax(Tail(q)))

\* what a caller of _retry_request observes of one call: whether it returned,
\* how long it slept in all (seconds) and its longest single sleep (seconds)
Observed(call) ==
    [ok |-> call.kind = "returned", slept |-> SeqSum(call.slept),
     longest |-> SeqMax(call.slept)]

Calls == {Observed(_retry_request(script)) : script \in Scripts}

(***************************************************************************)
(* R2RClient.create_collection against a store of collections              *)
(***************************************************************************)
\* Does the store carry out a request it answers with resp?  A 2xx answer
\* says it did, a 4xx answer that it did not; when the store answers 5xx or
\* the answer never arrives (timeout, connection lost) it may have done
\* either.
Applies(resp) ==
    IF resp.exc THEN BOOLEAN
    ELSE IF resp.status_code >= 200 /\ resp.status_code < 300 THEN {TRUE}
    ELSE IF resp.status_code >= 500 THEN BOOLEAN
    ELSE {FALSE}

\* the numbers of requests the store may carry out of the first n of a script
Created(script, n) ==
    {Cardinality(done) : done \in
        {d \in SUBSET (1..n) : \A k \in 1..n : (k \in d) \in Applies(script[k])}}

\* get_collection, lines 136-140: the first listed collection of that name
Lists(n) == n > 0

\* create_collection, lines 152-157: return the listed collection, or create
AfterGet(ok, n) ==
    IF ~ok THEN "raised" ELSE IF Lists(n) THEN "existing" ELSE "post"

\* create_collection, lines 158-167
AfterPost(ok) == IF ok THEN "created" ELSE "raised"

\* the number of create_collection calls made one after another
MaxCreateCalls == 3

CallRecord(listed, posts, made, result) ==
    [listed |-> listed, posts |-> posts, made |-> made, result |-> result]

CollectionsInit ==
    /\ rr_pc = "idle"
    /\ rr_attempt = 0
    /\ rr_trace = <<>>
    /\ rr_result = NoResult
    /\ LoadIdle
    /\ cc_pc = "get"
    /\ cc_log = <<>>
    /\ client = <<>>
    /\ IdIdle
    /\ RunsIdle
    /\ FilterIdle
    /\ MoreIdle

\* a caller calls create_collection with the same name once more
CreateCollectionAgain ==
    /\ cc_pc = "idle"
    /\ Len(cc_log) < MaxCreateCalls
    /\ cc_pc' = "get"
    /\ UNCHANGED <<rrVars, loadVars, cc_log, client, besideColl>>

\* lines 152-155: get_collection, and the return of an existing collection
CreateCollectionGet ==
    /\ cc_pc = "get"
    /\ \E call \in Calls, body_ok \in BOOLEAN :
          LET next == AfterGet(call.ok /\ body_ok, store) IN
          IF next = "post"
          THEN cc_pc' = "post" /\ cc_log' = cc_log
          ELSE /\ cc_pc' = "idle"
               /\ cc_log' = Append(cc_log, CallRecord(Lists(store), 0, 0, next))
    /\ UNCHANGED <<rrVars, loadVars, client, besideColl>>

\* lines 157-167: the creation request, sent through _retry_request
CreateCollectionPost ==
    /\ cc_pc = "post"
    /\ \E script \in Scripts, body_ok \in BOOLEAN :
          LET call == _retry_request(script) IN
          \E made \in Created(script, call.requests) :
             /\ store' = store + made
             /\ cc_log' = Append(cc_log,
                   CallRecord(Lists(store), call.requests, made,
                              AfterPost(call.kind = "returned" /\ body_ok)))
    /\ cc_pc' = "idle"
    /\ UNCHANGED <<rrVars, runVars, client, besideColl>>

CollectionsNext ==
    \/ CreateCollectionAgain
    \/ CreateCollectionGet
    \/ CreateCollectionPost

SpecCollections == CollectionsInit /\ [][CollectionsNext]_vars

(***************************************************************************)
(* Two R2RClient objects, each calling create_collection once with the     *)
(* same name against the same store.  Nothing in r2r_client.py orders the  *)
(* requests of one client with those of the other: the steps of the two    *)
(* calls interleave request by request.                                    *)
(***************************************************************************)
Clients == {1, 2}

\* a create_collection call about to send its listing request
Calling == [pc |-> "get", listed |-> FALSE, posts |-> 0, made |-> 0, result |-> ""]

ClientsInit ==
    /\ rr_pc = "idle"
    /\ rr_attempt = 0
    /\ rr_trace = <<>>
    /\ rr_result = NoResult
    /\ LoadIdle
    /\ cc_pc = "idle"
    /\ cc_log = <<>>
    /\ client = [c \in Clients |-> Calling]
    /\ IdIdle
    /\ RunsIdle
    /\ FilterIdle
    /\ MoreIdle

\* lines 152-155 in client c: get_collection, and the return of an existing
\* collection
ClientGet(c) ==
    /\ client[c].pc = "get"
    /\ \E call \in Calls, body_ok \in BOOLEAN :
          LET next == AfterGet(call.ok /\ body_ok, store) IN
          client' = [client EXCEPT ![c] =
                        IF next = "post"
                        THEN [@ EXCEPT !.pc = "post"]
                        ELSE [@ EXCEPT !.pc = "done", !.listed = Lists(store),
                                       !.result = next]]
    /\ UNCHANGED <<rrVars, loadVars, cc_pc, cc_log, besideColl>>

\* lines 157-167 in client c: one request of the creation POST, sent by
\* _retry_request; the store answers it with resp
ClientPostAttempt(c) ==
    /\ client[c].pc = "post"
    /\ \E resp \in LoadResponses, applied \in BOOLEAN, body_ok \in BOOLEAN :
          LET out == Attempt(client[c].posts, resp)
              again == out.next = "continue"
                          /\ client[c].posts + 1 < API_RETRY_ATTEMPTS
              made == IF applied THEN 1 ELSE 0
          IN  /\ applied \in Applies(resp)
              /\ store' = store + made
              /\ client' = [client EXCEPT ![c] =
                    [pc |-> IF again THEN "post" ELSE "done",
                     listed |-> FALSE,
                     posts |-> @.posts + 1,
                     made |-> @.made + made,
                     result |-> IF again THEN ""
                                ELSE AfterPost(out.next = "return" /\ body_ok)]]
    /\ UNCHANGED <<rrVars, runVars, cc_pc, cc_log, besideColl>>

ClientsNext == \E c \in Clients : ClientGet(c) \/ ClientPostAttempt(c)

SpecClients == ClientsInit /\ [][ClientsNext]_vars

(***************************************************************************)
(* generate_document_id: strings are sequences of characters               *)
(***************************************************************************)
\* repository URLs and repository-relative paths
Urls == {<<"u">>, <<"u", ":", "a">>}

Paths == {<<"a">>, <<"b">>, <<"a", ":", "b">>, <<"a", "/", "b">>}

\* a UUID has 122 bits that depend on the name; the model's have DigestBits
DigestBits == 1

Uuids == 0..(Pow2(DigestBits) - 1)

UniqueKey_urlOnly(repo_url, file_path) == repo_url

\* line 52: unique_key = f"{repo_url}:{file_path}"
UniqueKey(repo_url, file_path) == repo_url \o <<":">> \o file_path

\* line 53: uuid.uuid5(uuid.NAMESPACE_DNS, name), the SHA-1 of the namespace
\* and the name cut to the size of a UUID: one fixed function of the name,
\* the same in every call, run and machine.  The identifiers it may give a
\* name: the one it gave before, any if the name has not been hashed yet.
Uuid5(name) == IF name \in DOMAIN digest THEN {digest[name]} ELSE Uuids

\* lines 41-53: the identifiers the call may return
generate_document_id(repo_url, file_path) == Uuid5(UniqueKey(repo_url, file_path))

\* the number of calls of generate_document_id looked at together
MaxIdCalls == 3

IdCall(repo_url, file_path, id) ==
    [repo_url |-> repo_url, file_path |-> file_path,
     key |-> UniqueKey(repo_url, file_path), id |-> id]

IdentityInit ==
    /\ rr_pc = "idle"
    /\ rr_attempt = 0
    /\ rr_trace = <<>>
    /\ rr_result = NoResult
    /\ LoadIdle
    /\ CollIdle
    /\ IdIdle
    /\ RunsIdle
    /\ FilterIdle
    /\ MoreIdle

\* one call of generate_document_id
GenerateDocumentId ==
    /\ Len(id_calls) < MaxIdCalls
    /\ \E repo_url \in Urls, file_path \in Paths :
          \E id \in generate_document_id(repo_url, file_path) :
             /\ digest' = Put(digest, UniqueKey(repo_url, file_path), id)
             /\ id_calls' = Append(id_calls, IdCall(repo_url, file_path, id))
    /\ UNCHANGED <<rrVars, loadVars, besideId>>

IdentityNext == GenerateDocumentId

SpecIdentity == IdentityInit /\ [][IdentityNext]_vars

(***************************************************************************)
(* Two runs of the upload loop of load_repository over one repository,     *)
(* one after the other or interleaved, against a store that keys its       *)
(* documents by the identifier the client supplies                         *)
(***************************************************************************)
Runs == {1, 2}

\* the number of files selected
MaxRunFiles == 2

AllFiles == <<<<"a">>, <<"b">>, <<"a", ":", "b">>, <<"a", "/", "b">>>>

Selections == {SubSeq(AllFiles, 1, n) : n \in 1..Min(MaxRunFiles, Len(AllFiles))}

\* the directories a repository is cloned into
Roots == {<<"x", "/">>, <<"y", "/">>}

Contents == {"v1", "v2"}

File(r, k) ==
    [root |-> run[r].root, path |-> selected[k], content |-> run[r].content[k],
     inside |-> TRUE]

get_relative_path_absolute(file) == file.root \o file.path

\* file_filter.py lines 206-215: the path relative to the clone directory
get_relative_path(file) ==
    IF file.inside THEN file.path ELSE file.root \o file.path

DocumentKeyOf_content(repo_url, file) ==
    UniqueKey(repo_url, get_relative_path(file) \o <<file.content>>)

\* lines 193-197 with line 52: the key hashed for a file of the loop
DocumentKeyOf(repo_url, file) == UniqueKey(repo_url, get_relative_path(file))

NoId == -1

RequestId_none(document_id) == NoId

\* upload_document lines 228-229: data['id'] = document_id
RequestId(document_id) == document_id

\* the key the store files a document under: the identifier of the request,
\* one of its own making if the request has none
StoreKey(request_id, held) ==
    IF request_id = NoId THEN 0 - (Cardinality(held) + 1) ELSE request_id

\* the store replaces the document of that key, if it holds one
Upsert(held, doc) == {d \in held : d.id # doc.id} \cup {doc}

RunRecord(pos, root, content, after) ==
    [pc |-> pos, k |-> 1, root |-> root, content |-> content, doc_id |-> NoId,
     ids |-> <<>>, sent |-> {}, after |-> after]

RunsInit ==
    /\ rr_pc = "idle"
    /\ rr_attempt = 0
    /\ rr_trace = <<>>
    /\ rr_result = NoResult
    /\ LoadIdle
    /\ CollIdle
    /\ IdIdle
    /\ FilterIdle
    /\ MoreIdle
    /\ url \in Urls
    /\ selected \in Selections
    /\ \E root \in Roots, content \in [1..Len(selected) -> Contents] :
          run = [r \in Runs |->
                   IF r = 1
                   THEN RunRecord("prepare", <<"x", "/">>,
                                  [k \in 1..Len(selected) |-> "v1"], FALSE)
                   ELSE RunRecord("idle", root, content, FALSE)]
    /\ docs = {}
    /\ after_first = -1

\* the second run starts, while the first is under way or after its end
RunStart ==
    /\ run[2].pc = "idle"
    /\ run' = [run EXCEPT ![2].pc = "prepare", ![2].after = (run[1].pc = "done")]
    /\ UNCHANGED <<rrVars, loadVars, besideRuns, digest, url, selected, docs,
                   after_first>>

\* lines 190-197: the next file, its relative path, its document id
RunPrepare(r) ==
    /\ run[r].pc = "prepare"
    /\ LET key == DocumentKeyOf(url, File(r, run[r].k)) IN
       \E id \in Uuid5(key) :
          /\ digest' = Put(digest, key, id)
          /\ run' = [run EXCEPT ![r].pc = "upload", ![r].doc_id = id,
                                ![r].ids = Append(@, id)]
    /\ UNCHANGED <<rrVars, loadVars, besideRuns, url, selected, docs, after_first>>

\* lines 199-229 and upload_document: the metadata is built and the file
\* opened, or one of them raises; the request carries the id; the store
\* files the document, or it does not (the request fails, or is refused)
RunUpload(r) ==
    /\ run[r].pc = "upload"
    /\ LET k == run[r].k
           last == k = Len(selected)
           request_id == RequestId(run[r].doc_id)
           doc == [id |-> StoreKey(request_id, docs), path |-> selected[k],
                   content |-> run[r].content[k]]
       IN
       \E local_ok \in BOOLEAN :
          \E applied \in IF local_ok THEN BOOLEAN ELSE {FALSE} :
             /\ docs' = IF applied THEN Upsert(docs, doc) ELSE docs
             /\ run' = [run EXCEPT ![r].pc = IF last THEN "done" ELSE "prepare",
                                   ![r].k = k + 1,
                                   ![r].sent = IF local_ok THEN @ \cup {request_id}
                                                            ELSE @]
             /\ after_first' = IF r = 1 /\ last THEN Cardinality(docs') ELSE after_first
    /\ UNCHANGED <<rrVars, loadVars, besideRuns, digest, url, selected>>

RunsNext ==
    \/ RunStart
    \/ \E r \in Runs : RunPrepare(r)
    \/ \E r \in Runs : RunUpload(r)

SpecRuns == RunsInit /\ [][RunsNext]_vars

(***************************************************************************)
(* FileFilter.filter_files (file_filter.py)                                *)
(***************************************************************************)
\* config.py lines 90-91
MAX_FILE_SIZE_MB == 20

MAX_FILE_SIZE_BYTES == MAX_FILE_SIZE_MB * 1024 * 1024

\* the number of entries in the repository
MaxEntries == 2

Kinds == {"file", "dir", "symlink_file", "symlink_dir", "broken_symlink"}

\* st_size of the entry itself (lstat)
Sizes == {MAX_FILE_SIZE_BYTES, MAX_FILE_SIZE_BYTES + 1}

\* an entry: what it is, whether a rule of the rule set matches its path,
\* whether its suffix is a supported extension, its size, whether stat works
Entries ==
    {e \in [kind : Kinds, ignored : BOOLEAN, supported : BOOLEAN, size : Sizes,
            stat_ok : BOOLEAN] :
        e.kind = "dir" => (~e.supported /\ e.stat_ok /\ e.size = MAX_FILE_SIZE_BYTES)}

\* Path.is_dir follows symbolic links, Path.is_symlink does not
is_dir(e) == e.kind \in {"dir", "symlink_dir"}

is_symlink_valid(e) == e.kind \in {"symlink_file", "symlink_dir"}

is_symlink(e) == e.kind \in {"symlink_file", "symlink_dir", "broken_symlink"}

\* lines 70-99
_is_ignored(e) == e.ignored

\* lines 101-103
_is_supported_file(e) == e.supported

_is_size_ok_noLimit(e) == e.stat_ok /\ ~is_symlink(e)

_is_size_ok_strict(e) ==
    IF ~e.stat_ok THEN FALSE
    ELSE IF is_symlink(e) THEN FALSE
    ELSE e.size < MAX_FILE_SIZE_BYTES

\* lines 105-118
_is_size_ok(e) ==
    IF ~e.stat_ok THEN FALSE
    ELSE IF is_symlink(e) THEN FALSE
    ELSE e.size <= MAX_FILE_SIZE_BYTES

\* lines 138-168: what the loop body does with an entry
Verdict(e) ==
    IF is_dir(e) THEN "directory"
    ELSE IF is_symlink(e) THEN "ignored"
    ELSE IF _is_ignored(e) THEN "ignored"
    ELSE IF ~_is_supported_file(e) THEN "extension"
    ELSE IF ~_is_size_ok(e) THEN "size"
    ELSE "valid"

FilterInit ==
    /\ rr_pc = "idle"
    /\ rr_attempt = 0
    /\ rr_trace = <<>>
    /\ rr_result = NoResult
    /\ LoadIdle
    /\ CollIdle
    /\ IdIdle
    /\ RunsIdle
    /\ MoreIdle
    /\ \E n \in 0..MaxEntries : tree \in [1..n -> Entries]
    /\ ff_k = 1
    /\ valid_files = <<>>
    /\ skipped_ignored = 0
    /\ skipped_extension = 0
    /\ skipped_size = 0
    /\ ff_log = <<>>

\* lines 137-168: one iteration of `for path in self.repo_path.rglob('*')`
FilterStep ==
    /\ ff_k <= Len(tree)
    /\ LET verdict == Verdict(tree[ff_k]) IN
       /\ skipped_ignored' = skipped_ignored + IF verdict = "ignored" THEN 1 ELSE 0
       /\ skipped_extension' = skipped_extension + IF verdict = "extension" THEN 1 ELSE 0
       /\ skipped_size' = skipped_size + IF verdict = "size" THEN 1 ELSE 0
       /\ valid_files' = IF verdict = "valid" THEN Append(valid_files, ff_k)
                                              ELSE valid_files
       /\ ff_log' = Append(ff_log, verdict)
    /\ ff_k' = ff_k + 1
    /\ UNCHANGED <<rrVars, loadVars, besideFilter, tree>>

FilterNext == FilterStep

SpecFilter == FilterInit /\ [][FilterNext]_vars

(***************************************************************************)
(* FileFilter.__init__, _load_gitignore and _is_ignored (file_filter.py)   *)
(* Strings are sequences of characters.                                    *)
(***************************************************************************)
\* config.py lines 96-221, three of the patterns: 'build' (line 186),
\* '*.pyc' (line 105) and 'vendor/bundle' (line 167)
IGNORE_PATTERNS ==
    << <<"b", "u", "i", "l", "d">>,
       <<"*", ".", "p", "y", "c">>,
       <<"v", "e", "n", "d", "o", "r", "/", "b", "u", "n", "d", "l", "e">> >>

\* the number of lines of .gitignore
MaxGitignoreLines == 2

\* the number of calls of _is_ignored
MaxProbes == 1

\* lines of a .gitignore, without the line end that strip() removes
GitignoreLines ==
    { <<"g">>,
      <<" ", "/", "g">>,
      <<"/", "/", "g">>,
      <<"#", "g">>,
      <<" ">>,
      <<"*", ".", "j", "s">> }

\* values of the ignore_patterns argument: None, [], ['g']
ArgPatterns ==
    { NoPatterns,
      [none |-> FALSE, list |-> <<>>],
      [none |-> FALSE, list |-> << <<"g">> >>] }

\* paths relative to repo_path
RelPaths ==
    { <<"b", "u", "i", "l", "d", "/", "o", "u", "t", "p", "u", "t", ".", "j", "s">>,
      <<"a", ".", "j", "s">>,
      <<"g", "/", "a", ".", "p", "y">>,
      <<"x", "/", "a", ".", "p", "y", "c">> }

\* the paths _is_ignored is called on: each of RelPaths under repo_path, and
\* one path that is not under repo_path
ProbeTargets ==
    {[inside |-> TRUE, path |-> path_str] : path_str \in RelPaths}
       \cup {[inside |-> FALSE, path |-> <<"a", ".", "j", "s">>]}

\* str.strip(): the string without leading and trailing whitespace
RECURSIVE lstrip(_)
lstrip(str) ==
    IF str # <<>> /\ Head(str) = " " THEN lstrip(Tail(str)) ELSE str

RECURSIVE rstrip(_)
rstrip(str) ==
    IF str # <<>> /\ str[Len(str)] = " " THEN rstrip(SubSeq(str, 1, Len(str) - 1))
    ELSE str

strip(str) == rstrip(lstrip(str))

startswith(str, ch) == str # <<>> /\ Head(str) = ch

\* str.split('/')
RECURSIVE split(_, _)
split(str, part) ==
    IF str = <<>> THEN <<part>>
    ELSE IF Head(str) = "/" THEN <<part>> \o split(Tail(str), <<>>)
    ELSE split(Tail(str), Append(part, Head(str)))

\* fnmatch.fnmatch on POSIX: '*' matches any run of characters, '/' included,
\* '?' any one character, any other character itself; the whole name has to
\* match (no pattern here has a '[')
RECURSIVE fnmatch(_, _)
fnmatch(name, pat) ==
    IF pat = <<>> THEN name = <<>>
    ELSE IF Head(pat) = "*"
         THEN fnmatch(name, Tail(pat)) \/ (name # <<>> /\ fnmatch(Tail(name), pat))
    ELSE IF name = <<>> THEN FALSE
    ELSE (Head(pat) = "?" \/ Head(pat) = Head(name)) /\ fnmatch(Tail(name), Tail(pat))

\* lines 89-97, the body of `for pattern in self.ignore_patterns`
MatchesPattern_pathOnly(path_str, pattern) ==
    \/ fnmatch(path_str, pattern)
    \/ fnmatch(path_str, <<"*", "*", "/">> \o pattern)

MatchesPattern(path_str, pattern) ==
    \/ fnmatch(path_str, pattern)
    \/ fnmatch(path_str, <<"*", "*", "/">> \o pattern)
    \/ LET parts == split(path_str, <<>>) IN
       \E k \in 1..Len(parts) : fnmatch(parts[k], pattern)

\* lines 70-99: _is_ignored of a path under repo_path (inside) or not
RECURSIVE IgnoredBy(_, _)
IgnoredBy(path_str, patterns) ==
    IF patterns = <<>> THEN FALSE
    ELSE IF MatchesPattern(path_str, Head(patterns)) THEN TRUE
    ELSE IgnoredBy(path_str, Tail(patterns))

is_ignored_path(inside, path_str, patterns) ==
    IF ~inside THEN TRUE ELSE IgnoredBy(path_str, patterns)

\* line 40: ignore_patterns or IGNORE_PATTERNS.copy()
BasePatterns(arg) ==
    IF arg.none \/ arg.list = <<>> THEN IGNORE_PATTERNS ELSE arg.list

\* line 40: the list object the expression evaluates to, the argument itself
\* (`or` returns its left operand when that is a non-empty list) or the new
\* list that IGNORE_PATTERNS.copy() makes
BaseObject(arg) == IF arg.none \/ arg.list = <<>> THEN "copy" ELSE "argument"

\* the lists as they are before the constructor runs
ListObjects(arg) == [argument |-> arg.list, IGNORE_PATTERNS |-> IGNORE_PATTERNS]

\* lines 55-66: what one line of .gitignore adds to the rule set
RuleOfLine_noStrip(raw) ==
    LET line == raw IN
    IF line = <<>> \/ startswith(line, "#") THEN <<>>
    ELSE IF startswith(line, "/") THEN <<Tail(line)>>
    ELSE <<line>>

RuleOfLine(raw) ==
    LET line == strip(raw) IN
    IF line = <<>> \/ startswith(line, "#") THEN <<>>
    ELSE IF startswith(line, "/") THEN <<Tail(line)>>
    ELSE <<line>>

\* lines 45-68
RECURSIVE _load_gitignore(_, _)
_load_gitignore(patterns, file) ==
    IF ~file.exists \/ file.lines = <<>> THEN patterns
    ELSE _load_gitignore(patterns \o RuleOfLine(Head(file.lines)),
                         [file EXCEPT !.lines = Tail(file.lines)])

Probe(inside, path_str, ignored) ==
    [inside |-> inside, path |-> path_str, ignored |-> ignored]

RulesInit ==
    /\ rr_pc = "idle"
    /\ rr_attempt = 0
    /\ rr_trace = <<>>
    /\ rr_result = NoResult
    /\ LoadIdle
    /\ CollIdle
    /\ IdIdle
    /\ RunsIdle
    /\ FilterIdle
    /\ MetaIdle
    /\ UploadIdle
    /\ arg_patterns \in ArgPatterns
    /\ \E exists \in BOOLEAN, n \in 0..MaxGitignoreLines :
          \E lines \in [1..n -> GitignoreLines] :
             /\ exists \/ n = 0
             /\ gitignore = [exists |-> exists, lines |-> lines]
    /\ fi_pc = "new"
    /\ ignore_patterns = <<>>
    /\ probes = <<>>
    /\ objects = ListObjects(arg_patterns)

\* lines 30-43: FileFilter(repo_path, ignore_patterns=arg_patterns); the
\* appends of _load_gitignore (line 66) go to the list self.ignore_patterns
\* refers to, and so to the argument when that is the same object
FileFilterInit ==
    /\ fi_pc = "new"
    /\ LET loaded == _load_gitignore(BasePatterns(arg_patterns), gitignore) IN
       /\ ignore_patterns' = loaded
       /\ objects' = IF BaseObject(arg_patterns) = "argument"
                     THEN [objects EXCEPT !.argument = loaded]
                     ELSE objects
    /\ fi_pc' = "built"
    /\ UNCHANGED <<rrVars, loadVars, besideRules, arg_patterns, gitignore, probes>>

\* lines 70-99: a call of _is_ignored
IsIgnoredCall ==
    /\ fi_pc = "built"
    /\ Len(probes) < MaxProbes
    /\ \E target \in ProbeTargets :
          probes' = Append(probes,
                           Probe(target.inside, target.path,
                                 is_ignored_path(target.inside, target.path,
                                                 ignore_patterns)))
    /\ UNCHANGED <<rrVars, loadVars, besideRules, arg_patterns, gitignore, fi_pc,
                   ignore_patterns, objects>>

RulesNext ==
    \/ FileFilterInit
    \/ IsIgnoredCall

SpecRules == RulesInit /\ [][RulesNext]_vars

(***************************************************************************)
(* MetadataExtractor.extract_imports and build_metadata                    *)
(* (metadata_extractor.py), for the languages python, c and cpp and for a  *)
(* language without import patterns                                        *)
(***************************************************************************)
\* the number of lines of the file
MaxLines == 3

Languages == {"python", "c", "cpp", "unknown"}

SourceLines ==
    { <<"i", "m", "p", "o", "r", "t", " ", "b">>,
      <<"f", "r", "o", "m", " ", "a", ".", "b", " ", "i", "m", "p", "o", "r", "t", " ", "x">>,
      <<" ", "i", "m", "p", "o", "r", "t", " ", "a", ".", "b">>,
      <<"#", " ", "i", "m", "p", "o", "r", "t", " ", "c">>,
      <<"#", "i", "n", "c", "l", "u", "d", "e", " ", "<", "a", ">">>,
      <<"#", "i", "n", "c", "l", "u", "d", "e", " ", "\"", "b", "\"">> }

\* the characters of the names, in code point order (the order of str)
CodePoints == <<".", "a", "b", "c", "x">>

ord(ch) == CHOOSE k \in 1..Len(CodePoints) : CodePoints[k] = ch

\* \s, \w and [\w.] over the characters of SourceLines
Whitespace == {" "}

WordChars ==
    {"a", "b", "c", "d", "e", "f", "i", "l", "m", "n", "o", "p", "r", "t", "u", "x"}

DottedChars == WordChars \cup {"."}

Quotes == {"<", "\""}

Unquotes == {">", "\""}

Drop(str, n) == SubSeq(str, n + 1, Len(str))

HasPrefix(str, prefix) ==
    Len(str) >= Len(prefix) /\ SubSeq(str, 1, Len(prefix)) = prefix

\* the length of the longest prefix of str made of characters of class
RECURSIVE RunOf(_, _)
RunOf(str, class) ==
    IF str # <<>> /\ Head(str) \in class THEN 1 + RunOf(Tail(str), class) ELSE 0

\* the length of the longest prefix of str made of characters outside class
RECURSIVE RunUntil(_, _)
RunUntil(str, class) ==
    IF str # <<>> /\ Head(str) \notin class THEN 1 + RunUntil(Tail(str), class) ELSE 0

\* re.match(r'^import\s+([\w.]+)', line): the set of group(1), empty if no match
re_import(line) ==
    IF ~HasPrefix(line, <<"i", "m", "p", "o", "r", "t">>) THEN {}
    ELSE LET rest == Drop(line, 6)
             ws == RunOf(rest, Whitespace)
             name == RunOf(Drop(rest, ws), DottedChars)
         IN  IF ws >= 1 /\ name >= 1 THEN {SubSeq(Drop(rest, ws), 1, name)} ELSE {}

\* re.match(r'^from\s+([\w.]+)\s+import', line)
re_from(line) ==
    IF ~HasPrefix(line, <<"f", "r", "o", "m">>) THEN {}
    ELSE LET rest == Drop(line, 4)
             ws == RunOf(rest, Whitespace)
             name == RunOf(Drop(rest, ws), DottedChars)
             after == Drop(rest, ws + name)
             ws2 == RunOf(after, Whitespace)
         IN  IF ws >= 1 /\ name >= 1 /\ ws2 >= 1
                  /\ HasPrefix(Drop(after, ws2), <<"i", "m", "p", "o", "r", "t">>)
             THEN {SubSeq(Drop(rest, ws), 1, name)} ELSE {}

\* re.match(r'#include\s+[<"]([^>"]+)[>"]', line)
re_include(line) ==
    IF ~HasPrefix(line, <<"#", "i", "n", "c", "l", "u", "d", "e">>) THEN {}
    ELSE LET rest == Drop(line, 8)
             ws == RunOf(rest, Whitespace)
             quoted == Drop(rest, ws)
             name == RunUntil(Drop(quoted, 1), Unquotes)
         IN  IF ws >= 1 /\ quoted # <<>> /\ Head(quoted) \in Quotes /\ name >= 1
                  /\ Len(quoted) > 1 + name
             THEN {SubSeq(quoted, 2, 1 + name)} ELSE {}

\* lines 24-53
IMPORT_PATTERNS(lang) ==
    CASE lang = "python" -> {"import", "from"}
      [] lang \in {"c", "cpp"} -> {"include"}
      [] OTHER -> {}

\* lines 88-90
Captured(pattern, line) ==
    CASE pattern = "import" -> re_import(line)
      [] pattern = "from" -> re_from(line)
      [] pattern = "include" -> re_include(line)

\* line 84
IsCommentLine_slashes(line) == HasPrefix(line, <<"/", "/">>)

IsCommentLine(line) == HasPrefix(line, <<"#">>) \/ HasPrefix(line, <<"/", "/">>)

\* lines 81-91: what one line adds to the set imports
ImportsOfLine(raw, patterns) ==
    LET line == strip(raw) IN
    IF IsCommentLine(line) THEN {}
    ELSE UNION {Captured(pattern, line) : pattern \in patterns}

\* lines 79-80: the lines `for line in f` yields before the read fails, if it does
LinesRead_whole(file) == file.lines

LinesRead(file) ==
    IF file.fail_at = NoFailure THEN file.lines
    ELSE SubSeq(file.lines, 1, file.fail_at)

\* str < str
RECURSIVE LexLess(_, _)
LexLess(a, b) ==
    IF b = <<>> THEN FALSE
    ELSE IF a = <<>> THEN TRUE
    ELSE IF Head(a) # Head(b) THEN ord(Head(a)) < ord(Head(b))
    ELSE LexLess(Tail(a), Tail(b))

\* sorted(list(imports))
RECURSIVE sorted_descending(_)
sorted_descending(names) ==
    IF names = {} THEN <<>>
    ELSE LET last == CHOOSE a \in names : \A b \in names : a = b \/ LexLess(b, a)
         IN  <<last>> \o sorted_descending(names \ {last})

RECURSIVE sorted(_)
sorted(names) ==
    IF names = {} THEN <<>>
    ELSE LET first == CHOOSE a \in names : \A b \in names : a = b \/ LexLess(a, b)
         IN  <<first>> \o sorted(names \ {first})

\* lines 58-96; the except clause of line 93 catches what the read raises
extract_imports(file, lang) ==
    LET patterns == IMPORT_PATTERNS(lang)
        read == LinesRead(file)
    IN  IF patterns = {} THEN <<>>
        ELSE sorted(UNION {ImportsOfLine(read[k], patterns) : k \in 1..Len(read)})

\* lines 186-213, the fields imports and import_count
build_metadata(file, lang) ==
    LET imports == extract_imports(file, lang) IN
    [raised |-> FALSE, imports |-> imports, import_count |-> Len(imports)]

MetaInit ==
    /\ rr_pc = "idle"
    /\ rr_attempt = 0
    /\ rr_trace = <<>>
    /\ rr_result = NoResult
    /\ LoadIdle
    /\ CollIdle
    /\ IdIdle
    /\ RunsIdle
    /\ FilterIdle
    /\ RulesIdle
    /\ UploadIdle
    /\ \E n \in 0..MaxLines :
          \E lines \in [1..n -> SourceLines], fail_at \in {NoFailure} \cup 0..n :
             source_file = [lines |-> lines, fail_at |-> fail_at]
    /\ language \in Languages
    /\ md_pc = "start"
    /\ metadata = <<>>

\* lines 162-215
BuildMetadata ==
    /\ md_pc = "start"
    /\ metadata' = <<build_metadata(source_file, language)>>
    /\ md_pc' = "done"
    /\ UNCHANGED <<rrVars, loadVars, besideMeta, source_file, language>>

MetaNext == BuildMetadata

SpecMeta == MetaInit /\ [][MetaNext]_vars

(***************************************************************************)
(* The upload loop of load_repository (repo_loader.py lines 190-229) with  *)
(* upload_document and _retry_request taken one request and one sleep at a *)
(* time, and an interrupt (KeyboardInterrupt) that may arrive at any step  *)
(***************************************************************************)
\* the number of files of the loop
MaxUploads == 2

\* main line 418: sys.exit(130)
InterruptExitCode == 130

\* relative paths of the files
UploadPaths ==
    { <<"a", ".", "y", "a", "m", "l">>,
      <<"d", "/", "b", ".", "s", "h">>,
      <<"a", ".", "b", ".", "t", "o", "m", "l">>,
      <<"a", ".", "p", "y">> }

\* r2r_client.py line 216
unsupported_extensions ==
    { <<".", "y", "a", "m", "l">>, <<".", "y", "m", "l">>, <<".", "t", "o", "m", "l">>, <<".", "x", "m", "l">>,
      <<".", "s", "h">>, <<".", "b", "a", "s", "h">>, <<".", "z", "s", "h">>, <<".", "f", "i", "s", "h">> }

\* the bytes of a file
FileContent == <<"x", "y">>

\* the largest k with str[k] = ch, 0 if there is none (str.rfind, 1-based)
rfind(str, ch) ==
    LET at == {k \in 1..Len(str) : str[k] = ch} IN
    IF at = {} THEN 0 ELSE CHOOSE k \in at : \A m \in at : m <= k

\* Path.name, Path.suffix and Path.stem
PathName(path_str) == Drop(path_str, rfind(path_str, "/"))

PathSuffix(path_str) ==
    LET name == PathName(path_str)
        dot == rfind(name, ".")
    IN  IF 1 < dot /\ dot < Len(name) THEN Drop(name, dot - 1) ELSE <<>>

PathStem(path_str) ==
    LET name == PathName(path_str)
        dot == rfind(name, ".")
    IN  IF 1 < dot /\ dot < Len(name) THEN SubSeq(name, 1, dot - 1) ELSE name

\* r2r_client.py lines 211-220
UploadName_original(path_str) == PathName(path_str)

UploadName(path_str) ==
    IF PathSuffix(path_str) \in unsupported_extensions
    THEN PathStem(path_str) \o <<".", "t", "x", "t">>
    ELSE PathName(path_str)

\* metadata_extractor.py lines 184 and 194: the field file_path
MetadataOf(rel_path) == [file_path |-> rel_path]

\* f.read() by requests when it builds the multipart body: the bytes from
\* the read position of the file object to the end of the file
ReadToEnd(position) == Drop(FileContent, position)

\* one request of upload_document (r2r_client.py lines 222-237)
UploadRequest(k, rel_path, attempt, body) ==
    [kind |-> "POST /v3/documents", file |-> k, path |-> rel_path,
     upload_name |-> UploadName(rel_path), metadata |-> MetadataOf(rel_path),
     attempt |-> attempt, body |-> body]

\* repo_loader.py line 227 `except Exception` and main line 416
LoopCatches_all(exception) == TRUE

LoopCatches(exception) == exception # "KeyboardInterrupt"

Incremented(kind, s) == [s EXCEPT ![kind] = s[kind] + 1]

UploadInit ==
    /\ rr_pc = "idle"
    /\ rr_attempt = 0
    /\ rr_trace = <<>>
    /\ rr_result = NoResult
    /\ LoadIdle
    /\ CollIdle
    /\ IdIdle
    /\ RunsIdle
    /\ FilterIdle
    /\ RulesIdle
    /\ MetaIdle
    /\ \E n \in 1..MaxUploads : up_files \in [1..n -> UploadPaths]
    /\ up_i = 1
    /\ up_pc = "next"
    /\ up_attempt = 0
    /\ file_pos = 0
    /\ requests_sent = <<>>
    /\ up_stats = [files_uploaded |-> 0, files_failed |-> 0]
    /\ up_exit = -1
    /\ sent_at_interrupt = -1

\* the exception of the try block of the loop: this file has failed
FileFailed ==
    /\ up_stats' = Incremented("files_failed", up_stats)
    /\ up_i' = up_i + 1
    /\ up_pc' = "next"
    /\ up_attempt' = 0

\* repo_loader.py lines 190-212 and r2r_client.py line 208: the loop takes
\* the next file, builds its metadata and opens it
UploadOpen ==
    /\ up_pc = "next"
    /\ up_i <= Len(up_files)
    /\ \E opened \in BOOLEAN :
          IF opened
          THEN /\ up_pc' = "attempt"
               /\ up_attempt' = 0
               /\ UNCHANGED <<up_i, up_stats>>
          ELSE FileFailed
    /\ file_pos' = 0
    /\ UNCHANGED <<rrVars, loadVars, besideUpload, up_files, requests_sent, up_exit,
                   sent_at_interrupt>>

\* what follows the sleeps of an attempt: the next attempt, or line 86
AfterAttempt ==
    IF up_attempt + 1 < API_RETRY_ATTEMPTS
    THEN /\ up_attempt' = up_attempt + 1
         /\ up_pc' = "attempt"
         /\ UNCHANGED <<up_i, up_stats>>
    ELSE FileFailed

\* r2r_client.py lines 55-84: one requests.request of _retry_request
UploadAttempt ==
    /\ up_pc = "attempt"
    /\ \E resp \in LoadResponses, body_ok \in BOOLEAN :
          LET out == Attempt(up_attempt, resp) IN
          CASE out.next = "return" /\ body_ok ->
                  /\ up_stats' = Incremented("files_uploaded", up_stats)
                  /\ up_pc' = "rate"
                  /\ UNCHANGED <<up_i, up_attempt>>
            [] out.next = "return" /\ ~body_ok -> FileFailed
            [] out.next = "raise" -> FileFailed
            [] out.next = "continue" /\ out.slept # <<>> ->
                  /\ up_pc' = "backoff"
                  /\ UNCHANGED <<up_i, up_attempt, up_stats>>
            [] OTHER -> AfterAttempt
    /\ requests_sent' =
          Append(requests_sent,
                 UploadRequest(up_i, up_files[up_i], up_attempt, ReadToEnd(file_pos)))
    /\ file_pos' = Len(FileContent)
    /\ UNCHANGED <<rrVars, loadVars, besideUpload, up_files, up_exit, sent_at_interrupt>>

\* r2r_client.py lines 65, 77, 84: the time.sleep of a retry has ended
UploadBackoff ==
    /\ up_pc = "backoff"
    /\ AfterAttempt
    /\ UNCHANGED <<rrVars, loadVars, besideUpload, up_files, file_pos, requests_sent,
                   up_exit, sent_at_interrupt>>

\* repo_loader.py line 225: time.sleep(UPLOAD_DELAY_MS / 1000) has ended
UploadRateSleep ==
    /\ up_pc = "rate"
    /\ up_i' = up_i + 1
    /\ up_pc' = "next"
    /\ up_attempt' = 0
    /\ UNCHANGED <<rrVars, loadVars, besideUpload, up_files, file_pos, requests_sent,
                   up_stats, up_exit, sent_at_interrupt>>

\* repo_loader.py line 231: the loop is over
UploadLoopEnds ==
    /\ up_pc = "next"
    /\ up_i > Len(up_files)
    /\ up_pc' = "over"
    /\ UNCHANGED <<rrVars, loadVars, besideUpload, up_files, up_i, up_attempt, file_pos,
                   requests_sent, up_stats, up_exit, sent_at_interrupt>>

\* KeyboardInterrupt raised in the loop: before a file, in a request (sent
\* or not), in the sleep of a retry, in the rate limiting sleep; no handler
\* of the loop or of the client catches it, main exits (lines 416-418)
Interrupt ==
    /\ up_pc \in {"next", "attempt", "backoff", "rate"}
    /\ up_pc = "next" => up_i <= Len(up_files)
    /\ \E sent \in BOOLEAN :
          /\ sent => up_pc = "attempt"
          /\ requests_sent' =
                IF sent
                THEN Append(requests_sent,
                            UploadRequest(up_i, up_files[up_i], up_attempt,
                                          ReadToEnd(file_pos)))
                ELSE requests_sent
          /\ file_pos' = IF sent THEN Len(FileContent) ELSE file_pos
    /\ sent_at_interrupt' = Len(requests_sent')
    /\ IF LoopCatches("KeyboardInterrupt")
       THEN /\ FileFailed
            /\ UNCHANGED up_exit
       ELSE /\ up_pc' = "exit"
            /\ up_exit' = InterruptExitCode
            /\ UNCHANGED <<up_i, up_attempt, up_stats>>
    /\ UNCHANGED <<rrVars, loadVars, besideUpload, up_files>>

UploadNext ==
    \/ UploadOpen
    \/ UploadAttempt
    \/ UploadBackoff
    \/ UploadRateSleep
    \/ UploadLoopEnds
    \/ Interrupt

SpecUpload == UploadInit /\ [][UploadNext]_vars

(***************************************************************************)
(* main and RepositoryLoader.load_repository                               *)
(***************************************************************************)
MaxFiles == 2

MaxGraphItems == 1

MaxDuration == 1

\* wait_for_ingestion(timeout=300, poll_interval=5), graph wait of 30 s
IngestionTimeout == 300

PollInterval == 5

MsPerSecond == 1000

IngestionStatuses == {"pending", "success", "failed"}

Terminal == {"success", "failed"}

\* the id of the collection that carries the target name
CollectionId == "c1"

\* the document id of a file (client-supplied, echoed by the store)
DocId(file) == file

EnterPhase(p) == phases' = Append(phases, p)

LoadInit ==
    /\ rr_pc = "idle"
    /\ rr_attempt = 0
    /\ rr_trace = <<>>
    /\ rr_result = NoResult
    /\ pc = "main"
    /\ token = None
    /\ extract_kg \in BOOLEAN
    /\ store \in {0, 1}
    /\ files = <<>>
    /\ stats = InitialStats
    /\ i = 1
    /\ document_ids = <<>>
    /\ processed = <<>>
    /\ upload_calls = 0
    /\ gap = 0
    /\ prev_gap = 0
    /\ elapsed = 0
    /\ statuses = EmptyDict
    /\ j = 1
    /\ all_done = TRUE
    /\ ingestion_statuses = <<>>
    /\ issued = {}
    /\ phases = <<>>
    /\ exit_code = -1
    /\ kg_error = ""
    /\ RestIdle

\* main, line 422: sys.exit(1) on any exception
FatalExitCode == 1

AfterAuthenticate_goesOn(ok) == "sync"

\* main, lines 389-390: client.authenticate; a failure is fatal (lines 420-422)
AfterAuthenticate(ok) == IF ok THEN "sync" ELSE "exited"

\* authenticate, lines 97-109, called from main
Authenticate ==
    /\ pc = "main"
    /\ \E call \in Calls, body_ok \in BOOLEAN :
          LET ok == call.ok /\ body_ok IN
          /\ issued' = issued \cup {"login"}
          /\ token' = IF ok THEN "token" ELSE token
          /\ pc' = AfterAuthenticate(ok)
          /\ exit_code' = IF pc' = "exited" THEN FatalExitCode ELSE exit_code
    /\ UNCHANGED <<rrVars, restVars, kg_error, extract_kg, store, files, stats, i, document_ids,
                   processed, upload_calls, gap, prev_gap, waitVars, ingestion_statuses,
                   phases>>

\* load_repository, lines 122-130: clone or update, commit info (GitManager)
SyncRepository ==
    /\ pc = "sync"
    /\ \E git_ok \in BOOLEAN :
          IF git_ok
          THEN pc' = "select" /\ exit_code' = exit_code
          ELSE pc' = "exited" /\ exit_code' = FatalExitCode
    /\ UNCHANGED <<rrVars, restVars, kg_error, token, extract_kg, store, files, stats, i,
                   document_ids, processed, upload_calls, gap, prev_gap, waitVars,
                   ingestion_statuses, issued, phases>>

AfterSelect_goesOn(n) == "get_collection"

\* lines 148-150: `if not files: return stats`
AfterSelect(n) == IF n = 0 THEN "returned" ELSE "get_collection"

\* lines 143-150: file selection; no files, no run
SelectFiles ==
    /\ pc = "select"
    /\ \E n \in 0..MaxFiles :
          /\ files' = [k \in 1..n |-> k]
          /\ stats' = [stats EXCEPT !.files_found = n]
          /\ pc' = AfterSelect(n)
    /\ EnterPhase("Select")
    /\ UNCHANGED <<rrVars, restVars, kg_error, token, extract_kg, store, i, document_ids,
                   processed, upload_calls, gap, prev_gap, waitVars, ingestion_statuses,
                   issued, exit_code>>

\* lines 170-173 with create_collection lines 152-155: look the collection up
GetCollection ==
    /\ pc = "get_collection"
    /\ EnterPhase("BuildCollection")
    /\ issued' = issued \cup {"collections"}
    /\ \E call \in Calls, body_ok \in BOOLEAN :
          LET next == AfterGet(call.ok /\ body_ok, store) IN
          CASE next = "raised" -> pc' = "raised" /\ stats' = stats
            [] next = "existing" ->
                 /\ pc' = "upload"
                 /\ stats' = [stats EXCEPT !.collection_id = CollectionId]
            [] OTHER -> pc' = "post_collection" /\ stats' = stats
    /\ UNCHANGED <<rrVars, restVars, kg_error, token, extract_kg, store, files, i, document_ids,
                   processed, upload_calls, gap, prev_gap, waitVars, ingestion_statuses,
                   exit_code>>

\* create_collection lines 157-167, then load_repository lines 174-175
PostCollection ==
    /\ pc = "post_collection"
    /\ issued' = issued \cup {"collections"}
    /\ \E script \in Scripts, body_ok \in BOOLEAN :
          LET call == _retry_request(script) IN
          /\ \E made \in Created(script, call.requests) : store' = store + made
          /\ IF AfterPost(call.kind = "returned" /\ body_ok) = "created"
             THEN /\ pc' = "upload"
                  /\ stats' = [stats EXCEPT !.collection_id = CollectionId]
             ELSE pc' = "raised" /\ stats' = stats
    /\ UNCHANGED <<rrVars, restVars, kg_error, token, extract_kg, files, i, document_ids,
                   processed, upload_calls, gap, prev_gap, waitVars, ingestion_statuses,
                   phases, exit_code>>

\* lines 190-229: one iteration of the upload loop, with upload_document
\* (r2r_client.py lines 208-239): open the file, send it, read the answer
\* the sleeps (ms) of one iteration: those of the request, then line 225
UploadSleep(slept, uploaded) ==
    IF uploaded THEN slept \o <<UPLOAD_DELAY_MS>> ELSE slept

Record(done, file, uploaded) == Append(done, [file |-> file, uploaded |-> uploaded])

CountFailure_none(s) == s

\* line 228
CountFailure(s) == [s EXCEPT !.files_failed = @ + 1]

\* line 218
CountUpload(s) == [s EXCEPT !.files_uploaded = @ + 1]

UploadFile ==
    /\ pc = "upload"
    /\ i <= Len(files)
    /\ \E readable \in BOOLEAN, call \in Calls, body_ok \in BOOLEAN :
          LET uploaded == readable /\ call.ok /\ body_ok
              slept == IF readable THEN <<call.longest * MsPerSecond>> ELSE <<>>
          IN
          /\ issued' = IF readable THEN issued \cup {"upload"} ELSE issued
          /\ document_ids' = IF uploaded THEN Append(document_ids, DocId(files[i]))
                                         ELSE document_ids
          /\ stats' = IF uploaded THEN CountUpload(stats) ELSE CountFailure(stats)
          /\ processed' = Record(processed, files[i], uploaded)
          /\ IF readable
             THEN /\ upload_calls' = upload_calls + 1
                  /\ prev_gap' = gap
                  /\ gap' = SeqMax(UploadSleep(slept, uploaded))
             ELSE UNCHANGED <<upload_calls, prev_gap, gap>>
    /\ i' = i + 1
    /\ phases' = IF i = 1 THEN Append(phases, "UploadAll") ELSE phases
    /\ UNCHANGED <<rrVars, restVars, kg_error, token, pc, extract_kg, store, files, waitVars,
                   ingestion_statuses, exit_code>>

\* lines 231-248 and wait_for_ingestion lines 364-367: the loop is over,
\* monitoring starts
StartMonitoring ==
    /\ pc = "upload"
    /\ i > Len(files)
    /\ pc' = "wait_check"
    /\ elapsed' = 0
    /\ statuses' = EmptyDict
    /\ EnterPhase("MonitorIngestion")
    /\ upload_calls' = 0
    /\ gap' = 0
    /\ prev_gap' = 0
    /\ UNCHANGED <<rrVars, restVars, kg_error, token, extract_kg, store, files, stats, i,
                   document_ids, processed, j, all_done, ingestion_statuses, issued,
                   exit_code>>

\* wait_for_ingestion line 369-370 and 394-395: the head of the while loop
TimeLeft_never(t) == FALSE

TimeLeft(t) == t < IngestionTimeout

WaitCheck ==
    /\ pc = "wait_check"
    /\ IF TimeLeft(elapsed)
       THEN pc' = "wait_poll" /\ all_done' = TRUE /\ j' = 1
       ELSE pc' = "wait_returned" /\ UNCHANGED <<all_done, j>>
    /\ UNCHANGED <<rrVars, restVars, kg_error, token, extract_kg, store, files, stats, i,
                   document_ids, processed, upload_calls, gap, prev_gap, elapsed,
                   statuses, ingestion_statuses, issued, phases, exit_code>>

IsTerminal_successOnly(status) == status = "success"

\* lines 373 and 381
IsTerminal(status) == status \in Terminal

\* what get_document's body says: an ingestion_status, no such key, or no
\* parsable body at all
DocumentBodies == IngestionStatuses \cup {"no_key", "malformed"}

\* lines 376-385: what get_document and the lines after it make of elapsed,
\* statuses and all_done, for every call and every body of the answer
Polled(doc_id) ==
    UNION {
      { LET status == IF body = "no_key" THEN "pending" ELSE body IN
        [elapsed |-> Min(IngestionTimeout, elapsed + call.slept),
         statuses |-> IF call.ok /\ body # "malformed"
                      THEN Put(statuses, doc_id, status) ELSE statuses,
         all_done |-> IF call.ok /\ body # "malformed" /\ IsTerminal(status)
                      THEN all_done ELSE FALSE]
        : body \in IF call.ok THEN DocumentBodies ELSE {"malformed"} }
      : call \in Calls }

\* lines 372-385: one iteration of the for loop over document_ids
WaitPoll ==
    /\ pc = "wait_poll"
    /\ j <= Len(document_ids)
    /\ LET doc_id == document_ids[j] IN
       IF doc_id \in DOMAIN statuses /\ IsTerminal(statuses[doc_id])
       THEN UNCHANGED <<elapsed, statuses, all_done, issued>>
       ELSE \E polled \in Polled(doc_id) :
               /\ issued' = issued \cup {"status"}
               /\ elapsed' = polled.elapsed
               /\ statuses' = polled.statuses
               /\ all_done' = polled.all_done
    /\ j' = j + 1
    /\ UNCHANGED <<rrVars, restVars, kg_error, token, pc, extract_kg, store, files, stats, i,
                   document_ids, processed, upload_calls, gap, prev_gap,
                   ingestion_statuses, phases, exit_code>>

\* lines 387-392: the end of a round
WaitRoundEnd ==
    /\ pc = "wait_poll"
    /\ j > Len(document_ids)
    /\ IF all_done
       THEN pc' = "wait_returned" /\ elapsed' = elapsed
       ELSE pc' = "wait_check" /\ elapsed' = Min(IngestionTimeout, elapsed + PollInterval)
    /\ UNCHANGED <<rrVars, restVars, kg_error, token, extract_kg, store, files, stats, i,
                   document_ids, processed, upload_calls, gap, prev_gap, statuses, j,
                   all_done, ingestion_statuses, issued, phases, exit_code>>

NextAfterMonitoring_alwaysGraph(kg) == "kg_pull"

\* line 258: if extract_kg
NextAfterMonitoring(kg) == IF kg THEN "kg_pull" ELSE "summarize"

\* load_repository lines 244-258: wait_for_ingestion has returned
AfterMonitoring ==
    /\ pc = "wait_returned"
    /\ ingestion_statuses' = <<statuses>>
    /\ pc' = NextAfterMonitoring(extract_kg)
    /\ elapsed' = 0
    /\ statuses' = EmptyDict
    /\ j' = 1
    /\ all_done' = TRUE
    /\ UNCHANGED <<rrVars, restVars, kg_error, token, extract_kg, store, files, stats, i,
                   document_ids, processed, upload_calls, gap, prev_gap, issued, phases,
                   exit_code>>

AfterKgPull_raises(ok) == IF ok THEN "kg_fetch" ELSE "raised"

\* lines 263-265 and 286-287: pull_knowledge_graph returned, or raised into
\* `except Exception`, after which line 292 follows
AfterKgPull(ok) == IF ok THEN "kg_fetch" ELSE "summarize"

\* lines 258-265: pull_knowledge_graph (r2r_client.py lines 292-316)
KgPull ==
    /\ pc = "kg_pull"
    /\ EnterPhase("ExtractGraph")
    /\ issued' = issued \cup {"graph"}
    /\ \E call \in Calls, body_ok \in BOOLEAN :
          /\ pc' = AfterKgPull(call.ok /\ body_ok)
          /\ kg_error' = IF call.ok /\ body_ok THEN kg_error ELSE "pull"
    /\ UNCHANGED <<rrVars, restVars, token, extract_kg, store, files, stats, i,
                   document_ids, processed, upload_calls, gap, prev_gap, waitVars,
                   ingestion_statuses, exit_code>>

\* what get_graph_entities or get_graph_relationships comes back with
\* (r2r_client.py lines 318-346): it raises (after the retries, or on an
\* answer without 'results'), or it returns response.json()['results'], a
\* list of n items or a value that has no len()
GraphAnswers ==
    {[ok |-> FALSE, sized |-> FALSE, n |-> 0]}
       \cup {[ok |-> TRUE, sized |-> FALSE, n |-> 0]}
       \cup {[ok |-> TRUE, sized |-> TRUE, n |-> n] : n \in 0..MaxGraphItems}

\* lines 272-276 and 286-287: the two requests, then the two assignments
\* with len(); the first statement that raises ends the try block
KgFetched(s, entities, relationships) ==
    IF ~entities.ok THEN [error |-> "entities", stats |-> s]
    ELSE IF ~relationships.ok THEN [error |-> "relationships", stats |-> s]
    ELSE IF ~entities.sized THEN [error |-> "len", stats |-> s]
    ELSE IF ~relationships.sized
    THEN [error |-> "len", stats |-> [s EXCEPT !.kg_entities = entities.n]]
    ELSE [error |-> "",
          stats |-> [s EXCEPT !.kg_entities = entities.n,
                              !.kg_relationships = relationships.n]]

\* lines 267-287: sleep 30 s, get_graph_entities, get_graph_relationships
KgFetch ==
    /\ pc = "kg_fetch"
    /\ pc' = "summarize"
    /\ \E entities \in GraphAnswers, relationships \in GraphAnswers :
          LET fetched == KgFetched(stats, entities, relationships) IN
          /\ stats' = fetched.stats
          /\ kg_error' = fetched.error
    /\ UNCHANGED <<rrVars, restVars, token, extract_kg, store, files, i, document_ids,
                   processed, upload_calls, gap, prev_gap, waitVars, ingestion_statuses,
                   issued, phases, exit_code>>

\* lines 292-308: the summary
Summarize ==
    /\ pc = "summarize"
    /\ EnterPhase("Summarize")
    /\ \E d \in 0..MaxDuration : stats' = [stats EXCEPT !.duration_seconds = d]
    /\ pc' = "returned"
    /\ UNCHANGED <<rrVars, restVars, kg_error, token, extract_kg, store, files, i, document_ids,
                   processed, upload_calls, gap, prev_gap, waitVars, ingestion_statuses,
                   issued, exit_code>>

ExitCode_strict(s) ==
    LET found == Max(s.files_found, 1) IN
    IF 10 * s.files_uploaded > 9 * found THEN 0
    ELSE IF 2 * s.files_uploaded > found THEN 1
    ELSE 2

ExitCode_noFloor(s) ==
    LET found == s.files_found IN
    IF 10 * s.files_uploaded >= 9 * found THEN 0
    ELSE IF 2 * s.files_uploaded >= found THEN 1
    ELSE 2

\* main lines 407-414: the exit code from the success rate
\* files_uploaded / max(files_found, 1), compared with 0.9 and with 0.5
ExitCode(s) ==
    LET found == Max(s.files_found, 1) IN
    IF 10 * s.files_uploaded >= 9 * found THEN 0
    ELSE IF 2 * s.files_uploaded >= found THEN 1
    ELSE 2

ExitOf_fromStats(where, s) == ExitCode(s)

\* main lines 397-422: load_repository returned its statistics, or raised
ExitOf(where, s) == IF where = "returned" THEN ExitCode(s) ELSE FatalExitCode

MainExit ==
    /\ pc \in {"returned", "raised"}
    /\ exit_code' = ExitOf(pc, stats)
    /\ pc' = "exited"
    /\ UNCHANGED <<rrVars, restVars, kg_error, token, extract_kg, store, files, stats, i,
                   document_ids, processed, upload_calls, gap, prev_gap, waitVars,
                   ingestion_statuses, issued, phases>>

LoadNext ==
    \/ Authenticate
    \/ SyncRepository
    \/ SelectFiles
    \/ GetCollection
    \/ PostCollection
    \/ UploadFile
    \/ StartMonitoring
    \/ WaitCheck
    \/ WaitPoll
    \/ WaitRoundEnd
    \/ AfterMonitoring
    \/ KgPull
    \/ KgFetch
    \/ Summarize
    \/ MainExit

SpecLoad == LoadInit /\ [][LoadNext]_vars

(***************************************************************************)
(* Claims about the upload loop of load_repository                         *)
(***************************************************************************)
UploadLoopOver == Len(files) > 0 /\ i > Len(files)

Failed == {k \in 1..Len(processed) : ~processed[k].uploaded}

C2_DelayBetweenUploads ==
    (pc = "upload" /\ upload_calls >= 2) => prev_gap >= UPLOAD_DELAY_MS

(***************************************************************************)
(* Claims about the phases of load_repository                              *)
(***************************************************************************)
AllPhases(kg) ==
    IF kg
    THEN <<"Select", "BuildCollection", "UploadAll", "MonitorIngestion",
           "ExtractGraph", "Summarize">>
    ELSE <<"Select", "BuildCollection", "UploadAll", "MonitorIngestion", "Summarize">>

Range(q) == {q[k] : k \in 1..Len(q)}

IsPrefix(p, q) == Len(p) <= Len(q) /\ p = SubSeq(q, 1, Len(p))

RunOver == pc \in {"returned", "raised"}

\* no phase starts before the one before it is complete
PhasesInOrder ==
    /\ IsPrefix(phases, AllPhases(extract_kg))
    /\ "collections" \in issued =>
          phases # <<>> /\ stats.files_found = Len(files) /\ Len(files) > 0
    /\ "upload" \in issued => stats.collection_id # None
    /\ "status" \in issued => UploadLoopOver /\ "MonitorIngestion" \in Range(phases)
    /\ (pc \in {"wait_check", "wait_poll", "wait_returned"}) => UploadLoopOver
    /\ "graph" \in issued => ingestion_statuses # <<>>
    /\ "Summarize" \in Range(phases) => pc \in {"returned", "exited"}

\* C9 as stated: every run goes through Select, BuildCollection, UploadAll,
\* MonitorIngestion, ExtractGraph if asked for, and Summarize, in that order,
\* no phase starting before the one before it is complete, Summarize last.
C9_EveryRunPassesAllPhases ==
    /\ PhasesInOrder
    /\ RunOver => phases = AllPhases(extract_kg)

\* C9 as amended: the phases are entered in that order, no phase starting
\* before the one before it is complete; a run that selects at least one file
\* and gets its collection goes through all of them and ends with Summarize;
\* a run that selects no file returns right after Select, without Summarize
\* and without any request to the store; a run whose collection setup fails
\* raises in BuildCollection.
C9_PhasesInOrder ==
    /\ PhasesInOrder
    /\ (pc = "returned" /\ stats.files_found > 0) => phases = AllPhases(extract_kg)
    /\ (pc = "returned" /\ stats.files_found = 0) =>
          /\ phases = <<"Select">>
          /\ issued \subseteq {"login"}
    /\ pc = "raised" => phases = <<"Select", "BuildCollection">>

C9_Witness ==
    /\ pc = "returned"
    /\ extract_kg
    /\ phases = <<"Select", "BuildCollection", "UploadAll", "MonitorIngestion",
                  "ExtractGraph", "Summarize">>
    /\ issued = {"login", "collections", "upload", "status", "graph"}

(***************************************************************************)
(* Claims about wait_for_ingestion                                         *)
(***************************************************************************)
AllTerminal ==
    \A k \in 1..Len(document_ids) :
        /\ document_ids[k] \in DOMAIN statuses
        /\ statuses[document_ids[k]] \in {"success", "failed"}

\* C10: wait_for_ingestion polls round after round; it returns before the
\* timeout has elapsed only when every tracked document has a recorded
\* status of success or failed, and otherwise only once the timeout has elapsed.
C10_ReturnsWhenAllTerminalOrTimeout ==
    /\ (pc = "wait_returned" /\ elapsed < 300) => AllTerminal
    /\ (pc = "wait_returned" /\ ~AllTerminal) => elapsed >= 300
    /\ (pc = "wait_check" /\ elapsed < 300) => ENABLED WaitCheck
    /\ (pc = "wait_poll" /\ j > Len(document_ids)) => ENABLED WaitRoundEnd

C10_Witness ==
    /\ pc = "wait_returned"
    /\ elapsed > 0 /\ elapsed < 300
    /\ Len(document_ids) = 2
    /\ statuses[document_ids[1]] = "failed"
    /\ statuses[document_ids[2]] = "success"

(***************************************************************************)
(* Claims about a monitoring timeout                                       *)
(***************************************************************************)
FailedCount_notSuccess(dict) == Cardinality({d \in DOMAIN dict : dict[d] # "success"})

\* load_repository line 251: failed_count
FailedCount(dict) == Cardinality({d \in DOMAIN dict : dict[d] = "failed"})

\* load_repository line 250: success_count
SuccessCount(dict) == Cardinality({d \in DOMAIN dict : dict[d] = "success"})

\* the tracked documents that a status map does not show as terminal
StillPending(dict) ==
    {d \in Range(document_ids) : d \notin DOMAIN dict \/ dict[d] \notin Terminal}

AfterWait == {"kg_pull", "kg_fetch", "summarize", "returned", "exited"}

\* C11: when the monitoring timeout elapses with tracked documents still
\* non-terminal, wait_for_ingestion returns (it raises nothing), the map it
\* returns shows none of those documents as failed (each keeps its last
\* non-terminal status or is absent), failed_count and files_failed do not
\* count them, and the run goes on to the following phases and to Summarize.
C11_TimeoutIsNotFatal ==
    /\ [](((pc = "wait_returned" /\ ~AllTerminal) =>
              elapsed >= IngestionTimeout /\ ENABLED AfterMonitoring)
          /\ (ingestion_statuses # <<>> =>
                LET d == ingestion_statuses[1] IN
                /\ pc \in AfterWait
                /\ DOMAIN d \subseteq Range(document_ids)
                /\ \A doc \in StillPending(d) : doc \notin DOMAIN d \/ d[doc] = "pending"
                /\ FailedCount(d) + SuccessCount(d) + Cardinality(StillPending(d))
                      = Len(document_ids)
                /\ stats.files_failed = Cardinality(Failed)
                /\ stats.files_uploaded = Len(document_ids)
                /\ pc = "exited" =>
                      /\ phases = AllPhases(extract_kg)
                      /\ exit_code = ExitCode(stats)))
    /\ [][pc = "wait_returned" =>
             /\ ingestion_statuses' = <<statuses>>
             /\ pc' = NextAfterMonitoring(extract_kg)
             /\ stats' = stats]_vars

C11_Witness ==
    /\ pc = "returned"
    /\ Len(document_ids) = 2
    /\ ingestion_statuses # <<>>
    /\ DOMAIN ingestion_statuses[1] = {document_ids[1]}
    /\ ingestion_statuses[1][document_ids[1]] = "pending"
    /\ stats.files_failed = 0
    /\ phases[Len(phases)] = "Summarize"

(***************************************************************************)
(* Claims about create_collection                                          *)
(***************************************************************************)
SomeCallReturned == \E k \in 1..Len(cc_log) : cc_log[k].result # "raised"

\* C12: create_collection is idempotent: a call that finds a collection of
\* the target name listed sends no creation request and returns that
\* collection; hence after any sequence of calls made one after another with
\* the same name (one of which returned) the store holds exactly one
\* collection of that name.
C12_CreateCollectionIdempotent ==
    /\ \A k \in 1..Len(cc_log) :
          cc_log[k].listed =>
             /\ cc_log[k].posts = 0
             /\ cc_log[k].made = 0
             /\ cc_log[k].result \in {"existing", "raised"}
    /\ (cc_pc = "idle" /\ SomeCallReturned) => store = 1

(***************************************************************************)
(* Claims about fatal failures                                             *)
(***************************************************************************)
AuthenticationFailed == "login" \in issued /\ token = None

\* C13: if authentication fails (authenticate raises after its retries, or
\* on the answer it got), the run is aborted before any upload begins: no
\* collection request and no upload request is ever issued, nothing of
\* load_repository is run, and the process ends with a non-success exit code.
C13_AuthFailureAborts ==
    /\ "login" \notin issued => pc = "main" /\ token = None
    /\ AuthenticationFailed =>
          /\ pc = "exited"
          /\ issued = {"login"}
          /\ phases = <<>> /\ files = <<>> /\ processed = <<>>
          /\ stats = InitialStats
          /\ exit_code = FatalExitCode /\ exit_code # 0
    /\ issued \cap {"collections", "upload", "status", "graph"} # {} => token # None

C13_Witness ==
    /\ AuthenticationFailed
    /\ pc = "exited"
    /\ exit_code = 1

CollectionSetupFailed ==
    /\ phases = <<"Select", "BuildCollection">>
    /\ pc \in {"raised", "exited"}

\* C14: if the listing or the creation of the collection fails (after the
\* retries of _retry_request, or on the answer it got), load_repository raises
\* to its caller: no upload_document call is made, no later phase is entered,
\* no statistics are returned, and main exits on the exception.
C14_CollectionFailureIsFatal ==
    /\ pc = "raised" => CollectionSetupFailed
    /\ CollectionSetupFailed =>
          /\ "upload" \notin issued /\ "status" \notin issued /\ "graph" \notin issued
          /\ processed = <<>> /\ i = 1 /\ document_ids = <<>>
          /\ stats.collection_id = None
          /\ stats.files_uploaded = 0 /\ stats.files_failed = 0
          /\ pc = "exited" => exit_code = FatalExitCode
    /\ (pc \in {"get_collection", "post_collection"}) => "upload" \notin issued
    /\ "upload" \in issued => stats.collection_id # None

C14_Witness ==
    /\ CollectionSetupFailed
    /\ pc = "exited"
    /\ store = 0
    /\ stats.files_found = 2
    /\ exit_code = 1

(***************************************************************************)
(* main around load_repository taken as one step: the statistics it        *)
(* returns, or the exception it raises, and the exit code main derives     *)
(***************************************************************************)
MaxFound == 20

ExitInit ==
    /\ rr_pc = "idle"
    /\ rr_attempt = 0
    /\ rr_trace = <<>>
    /\ rr_result = NoResult
    /\ LoadIdle
    /\ RestIdle

\* main lines 389-405: authenticate, then load_repository returns statistics
\* with files_uploaded + files_failed = files_found
LoadReturns ==
    /\ pc = "idle"
    /\ \E found \in 0..MaxFound, uploaded \in 0..MaxFound, kg \in BOOLEAN :
          /\ uploaded <= found
          /\ extract_kg' = kg
          /\ files' = [k \in 1..found |-> k]
          /\ stats' = [stats EXCEPT !.files_found = found,
                                    !.files_uploaded = uploaded,
                                    !.files_failed = found - uploaded,
                                    !.collection_id =
                                        IF found = 0 THEN None ELSE CollectionId]
          /\ phases' = IF found = 0 THEN <<"Select">> ELSE AllPhases(kg)
    /\ pc' = "returned"
    /\ token' = "token"
    /\ UNCHANGED <<rrVars, restVars, kg_error, store, i, document_ids, processed, upload_calls,
                   gap, prev_gap, waitVars, ingestion_statuses, issued, exit_code>>

\* main lines 389-405: load_repository raises in its collection setup
LoadRaises ==
    /\ pc = "idle"
    /\ \E found \in 1..MaxFound :
          /\ files' = [k \in 1..found |-> k]
          /\ stats' = [stats EXCEPT !.files_found = found]
    /\ phases' = <<"Select", "BuildCollection">>
    /\ pc' = "raised"
    /\ token' = "token"
    /\ UNCHANGED <<rrVars, restVars, kg_error, extract_kg, store, i, document_ids, processed,
                   upload_calls, gap, prev_gap, waitVars, ingestion_statuses, issued,
                   exit_code>>

ExitNext ==
    \/ LoadReturns
    \/ LoadRaises
    \/ MainExit

SpecExit == ExitInit /\ [][ExitNext]_vars

\* the run went through load_repository to its end
Completed == pc = "exited" /\ phases # <<>> /\ phases[Len(phases)] = "Summarize"

\* C15: for every completed run with files_found >= 1 the exit code follows
\* from the success rate: 0 iff 10 * files_uploaded >= 9 * files_found, 1 iff
\* 2 * files_uploaded >= files_found and 10 * files_uploaded < 9 * files_found,
\* 2 iff 2 * files_uploaded < files_found.
C15_ExitCodeFromSuccessRate ==
    (Completed /\ stats.files_found >= 1) =>
        LET u == stats.files_uploaded
            f == stats.files_found
        IN
        /\ exit_code \in {0, 1, 2}
        /\ exit_code = 0 <=> 10 * u >= 9 * f
        /\ exit_code = 1 <=> (2 * u >= f /\ 10 * u < 9 * f)
        /\ exit_code = 2 <=> 2 * u < f

C15_Witness ==
    /\ Completed
    /\ stats.files_found = 10
    /\ stats.files_uploaded = 9
    /\ exit_code = 0

(***************************************************************************)
(* Claims about generate_document_id                                       *)
(***************************************************************************)
SameInputs(c, d) == c.repo_url = d.repo_url /\ c.file_path = d.file_path

OtherPath(c, d) == c.repo_url = d.repo_url /\ c.file_path # d.file_path

IdCalls == {id_calls[k] : k \in 1..Len(id_calls)}

BothDone == run[1].pc = "done" /\ run[2].pc = "done"

\* the second run began after the end of the first
OneAfterTheOther == run[2].after

\* the identifiers a run has computed, as a set
IdsOf(r) == Range(run[r].ids)

\* the files for which both runs have computed an identifier
ByBoth == 1..Min(Len(run[1].ids), Len(run[2].ids))

DocsOf(file_path) == {d \in docs : d.path = file_path}

C18_IdentifierIgnoresContent ==
    \A k \in ByBoth :
        /\ run[1].ids[k] = run[2].ids[k]
        /\ \A r \in Runs :
              (run[r].pc = "upload" /\ run[r].k = k) =>
                 /\ run[r].doc_id = run[1].ids[k]
                 /\ RequestId(run[r].doc_id) = run[1].ids[k]
        /\ \A r \in Runs : run[r].k > k => run[r].sent \subseteq IdsOf(1) \cup IdsOf(2)

C18_Witness ==
    /\ BothDone
    /\ run[1].content[1] # run[2].content[1]
    /\ run[1].ids[1] = run[2].ids[1]
    /\ run[1].ids[1] \in run[1].sent \cap run[2].sent
    /\ \E d \in DocsOf(selected[1]) : d.id = run[1].ids[1] /\ d.content = "v2"

\* C19: under any interleaving of two runs of the upload loop for the same
\* repository URL and the same files, both runs address the same identifier
\* for a file, so a store that keys its documents by that identifier never
\* holds more than one document for a (URL, path).
C19_ConcurrentRunsShareDocuments ==
    /\ \A k \in ByBoth : run[1].ids[k] = run[2].ids[k]
    /\ (run[1].pc = "upload" /\ run[2].pc = "upload" /\ run[1].k = run[2].k) =>
          run[1].doc_id = run[2].doc_id
    /\ \A k \in 1..Len(selected) : Cardinality(DocsOf(selected[k])) <= 1
    /\ \A d \in docs, e \in docs : d.id = e.id => d = e

C19_Witness ==
    /\ ~OneAfterTheOther
    /\ run[1].pc = "upload" /\ run[2].pc = "upload"
    /\ run[1].k = 1 /\ run[2].k = 1
    /\ run[1].root # run[2].root
    /\ run[1].doc_id = run[2].doc_id
    /\ Cardinality(DocsOf(selected[1])) = 0

(***************************************************************************)
(* Claims about filter_files                                               *)
(***************************************************************************)
\* the entries gone through so far that the loop counted in a given way
Counted(verdict) == {k \in 1..Len(ff_log) : ff_log[k] = verdict}

\* the files (entries that are no directory) larger than the maximum
Oversize == {k \in 1..Len(ff_log) : ~is_dir(tree[k]) /\ tree[k].size > MAX_FILE_SIZE_BYTES}

Kept == Range(valid_files)

CountersMatch ==
    /\ skipped_ignored = Cardinality(Counted("ignored"))
    /\ skipped_extension = Cardinality(Counted("extension"))
    /\ skipped_size = Cardinality(Counted("size"))
    /\ Kept = Counted("valid")

\* C20 as stated: every file larger than the configured maximum is left
\* out of the result and counted by the size-skip counter, never by the
\* extension-skip or the exclusion-skip counter, whatever its extension and
\* whether or not an exclusion rule matches it.
C20_OversizeCountsAsSize ==
    /\ CountersMatch
    /\ \A k \in Oversize : k \notin Kept /\ k \in Counted("size")

\* C20 as amended: every file larger than the configured maximum is left
\* out of the result and counted by exactly one counter, that of the first
\* check it fails: the exclusion-skip counter if it is a symbolic link or an
\* exclusion rule matches it, else the extension-skip counter if its
\* extension is not supported, and the size-skip counter only otherwise.
C20_OversizeIsExcluded ==
    /\ CountersMatch
    /\ \A k \in Oversize :
          LET e == tree[k] IN
          /\ k \notin Kept
          /\ k \in Counted("ignored") <=> (is_symlink(e) \/ _is_ignored(e))
          /\ k \in Counted("extension") <=>
                (~is_symlink(e) /\ ~_is_ignored(e) /\ ~_is_supported_file(e))
          /\ k \in Counted("size") <=>
                (~is_symlink(e) /\ ~_is_ignored(e) /\ _is_supported_file(e))

C20_Witness ==
    /\ Len(ff_log) = 2
    /\ Oversize = {1, 2}
    /\ tree[1].kind = "file" /\ tree[1].supported /\ ~tree[1].ignored /\ tree[1].stat_ok
    /\ tree[2].kind = "file" /\ ~tree[2].supported /\ ~tree[2].ignored
    /\ skipped_size = 1 /\ skipped_extension = 1 /\ skipped_ignored = 0
    /\ valid_files = <<>>

(***************************************************************************)
(* C21, C22: what filter_files returns                                     *)
(***************************************************************************)
\* the walk over the tree is over
FilterDone == ff_k > Len(tree)

Links == {"symlink_file", "symlink_dir", "broken_symlink"}

\* C21: no symbolic link, valid or dangling, to a file or to a directory,
\* is ever in the result of filter_files, whatever its extension, its size
\* and whether or not an exclusion rule matches it.
C21_NoSymlinkInResult ==
    \A k \in Kept : tree[k].kind \notin Links

C21_Witness ==
    /\ FilterDone
    /\ Len(tree) = 2
    /\ tree[1].kind = "broken_symlink" /\ tree[1].supported /\ ~tree[1].ignored
    /\ tree[1].size = MAX_FILE_SIZE_BYTES /\ tree[1].stat_ok
    /\ tree[2].kind = "symlink_file" /\ tree[2].supported /\ ~tree[2].ignored
    /\ tree[2].size = MAX_FILE_SIZE_BYTES /\ tree[2].stat_ok
    /\ valid_files = <<>>
    /\ skipped_ignored = 2

\* the entry is a file proper, of a supported extension, that no exclusion
\* rule matches and whose size, as stat reports it, is within the maximum
Qualifies(e) ==
    /\ e.kind = "file"
    /\ e.supported
    /\ ~e.ignored
    /\ e.stat_ok
    /\ e.size <= MAX_FILE_SIZE_BYTES

\* C22: filter_files returns exactly the enumerated entries that are no
\* directory and no symbolic link, have a supported extension, are matched
\* by no exclusion rule and have a size at most the configured maximum (a
\* size equal to the maximum is accepted): each returned entry is such an
\* entry, each such entry met so far is returned, once, in traversal order.
C22_ResultIsExactlyTheQualifying ==
    /\ Kept = {k \in 1..Len(ff_log) : Qualifies(tree[k])}
    /\ \A a, b \in 1..Len(valid_files) : a < b => valid_files[a] < valid_files[b]

C22_Witness ==
    /\ FilterDone
    /\ Len(tree) = 2
    /\ Qualifies(tree[1]) /\ tree[1].size = MAX_FILE_SIZE_BYTES
    /\ tree[2].kind = "file" /\ tree[2].supported /\ ~tree[2].ignored /\ tree[2].stat_ok
    /\ tree[2].size = MAX_FILE_SIZE_BYTES + 1
    /\ valid_files = <<1>>

(***************************************************************************)
(* C23, C24: the rule set and the matcher                                  *)
(***************************************************************************)
\* the segments of a path: its maximal runs of characters other than '/'
SegmentsOf(str) ==
    { SubSeq(str, ab[1], ab[2]) :
        ab \in { c \in (1..(Len(str) + 1)) \X (0..Len(str)) :
                   /\ c[1] <= c[2] + 1
                   /\ c[1] = 1 \/ str[c[1] - 1] = "/"
                   /\ c[2] = Len(str) \/ str[c[2] + 1] = "/"
                   /\ \A k \in c[1]..c[2] : str[k] # "/" } }

\* the pattern matches the full path, its '**/pattern' form does, or the
\* pattern matches one segment of the path
RuleHits(path_str, pattern) ==
    \/ fnmatch(path_str, pattern)
    \/ fnmatch(path_str, <<"*", "*", "/">> \o pattern)
    \/ \E segment \in SegmentsOf(path_str) : fnmatch(segment, pattern)

BuildOutputJs ==
    <<"b", "u", "i", "l", "d", "/", "o", "u", "t", "p", "u", "t", ".", "j", "s">>

Build == <<"b", "u", "i", "l", "d">>

\* the calls of _is_ignored on a path under the repository root
InsideProbes == {k \in 1..Len(probes) : probes[k].inside}

\* C23: _is_ignored excludes a path whenever a pattern of the rule set
\* matches the full relative path, in its '**/pattern' form, or one segment
\* of the path, whatever the extension of the file; 'build/output.js' is
\* excluded when 'build' is in the rule set; and a path that the first n
\* rules exclude is excluded by the whole rule set, whatever rules follow.
C23_AnyMatchingRuleExcludes ==
    \A k \in InsideProbes :
       LET path_str == probes[k].path IN
       /\ (\E n \in 1..Len(ignore_patterns) : RuleHits(path_str, ignore_patterns[n]))
             => probes[k].ignored
       /\ (path_str = BuildOutputJs /\ Build \in Range(ignore_patterns))
             => probes[k].ignored
       /\ \A n \in 0..Len(ignore_patterns) :
             IgnoredBy(path_str, SubSeq(ignore_patterns, 1, n)) => probes[k].ignored

C23_Witness ==
    /\ arg_patterns.none
    /\ Len(ignore_patterns) > Len(IGNORE_PATTERNS)
    /\ \E k \in InsideProbes : probes[k].path = BuildOutputJs /\ probes[k].ignored

\* a line without its leading and trailing whitespace
Trimmed(raw) ==
    LET inked == {k \in 1..Len(raw) : raw[k] # " "} IN
    IF inked = {} THEN <<>>
    ELSE SubSeq(raw, CHOOSE a \in inked : \A k \in inked : a <= k,
                     CHOOSE b \in inked : \A k \in inked : k <= b)

\* the rules a .gitignore declares: its lines, trimmed, that are neither
\* blank nor a comment, each without one leading '/'
RECURSIVE Declared(_)
Declared(lines) ==
    IF lines = <<>> THEN <<>>
    ELSE LET line == Trimmed(Head(lines)) IN
         (IF line = <<>> \/ line[1] = "#" THEN <<>>
          ELSE IF line[1] = "/" THEN <<SubSeq(line, 2, Len(line))>>
          ELSE <<line>>) \o Declared(Tail(lines))

DeclaredRules == IF gitignore.exists THEN Declared(gitignore.lines) ELSE <<>>

\* C24 as stated: whatever the arguments of the constructor and whatever
\* the .gitignore, the rule set of a constructed FileFilter is every
\* built-in default pattern followed by each line of the .gitignore that
\* is neither a comment nor blank, one leading '/' stripped.
C24_BuiltInsAlwaysPresent ==
    fi_pc = "built" => ignore_patterns = IGNORE_PATTERNS \o DeclaredRules

\* C24 as amended: the rule set of a constructed FileFilter is a base list
\* followed by each line of the .gitignore, trimmed of surrounding
\* whitespace, that is neither a comment nor blank, one leading '/'
\* stripped; the base list is the built-in default patterns when the
\* ignore_patterns argument is omitted or empty and the argument itself
\* otherwise, so the .gitignore never replaces a rule of the base list.
C24_GitignoreIsAdditive ==
    fi_pc = "built" =>
       LET base == IF arg_patterns.none \/ arg_patterns.list = <<>>
                   THEN IGNORE_PATTERNS ELSE arg_patterns.list
       IN  ignore_patterns = base \o DeclaredRules

C24_Witness ==
    /\ fi_pc = "built"
    /\ arg_patterns.none
    /\ gitignore.exists
    /\ gitignore.lines = << <<" ", "/", "g">>, <<"#", "g">> >>
    /\ ignore_patterns = IGNORE_PATTERNS \o << <<"g">> >>

(***************************************************************************)
(* C25, C26, C27: the import list                                          *)
(***************************************************************************)
MetadataBuilt == md_pc = "done"

Imports == Range(metadata[1].imports)

\* the names X of the lines '#include <X>' and '#include "X"' of the file
Included ==
    {name \in {<<"a">>, <<"b">>} :
        \E k \in 1..Len(source_file.lines) :
           source_file.lines[k] \in
              { <<"#", "i", "n", "c", "l", "u", "d", "e">> \o <<" ", "<">> \o name \o <<">">>,
                <<"#", "i", "n", "c", "l", "u", "d", "e">> \o <<" ", "\"">> \o name \o <<"\"">> }}

\* C25: for language c or cpp, extract_imports of a file that has a line
\* '#include <X>' or '#include "X"' returns a list that contains X.
C25_IncludesAreExtracted ==
    (MetadataBuilt /\ language \in {"c", "cpp"} /\ source_file.fail_at = NoFailure)
       => Included \subseteq Imports

\* the line, stripped, starts with a comment marker
StartsWithMarker(raw) ==
    LET inked == {k \in 1..Len(raw) : raw[k] # " "} IN
    /\ inked # {}
    /\ LET a == CHOOSE k \in inked : \A m \in inked : k <= m IN
       \/ raw[a] = "#"
       \/ a < Len(raw) /\ raw[a] = "/" /\ raw[a + 1] = "/"

\* the names a pattern of the language captures from a line of the file
\* that does not start with a comment marker
NamesOfCodeLines ==
    UNION {Captured(pattern, Trimmed(source_file.lines[k])) :
              pattern \in IMPORT_PATTERNS(language),
              k \in {m \in 1..Len(source_file.lines) :
                        ~StartsWithMarker(source_file.lines[m])}}

\* C26: for every file and language, the import list that extract_imports
\* produces and build_metadata stores is strictly ascending in
\* lexicographic order (sorted, without duplicates), holds no name other
\* than those captured from lines that do not start with a comment marker,
\* and import_count is its length.
C26_ImportsSortedAndCounted ==
    MetadataBuilt =>
       LET imports == metadata[1].imports IN
       /\ \A k \in 1..(Len(imports) - 1) : LexLess(imports[k], imports[k + 1])
       /\ Imports \subseteq NamesOfCodeLines
       /\ metadata[1].import_count = Len(imports)

C26_Witness ==
    /\ MetadataBuilt
    /\ language = "python"
    /\ source_file.fail_at = NoFailure
    /\ source_file.lines = << <<"i", "m", "p", "o", "r", "t", " ", "b">>, <<"#", " ", "i", "m", "p", "o", "r", "t", " ", "c">>, <<" ", "i", "m", "p", "o", "r", "t", " ", "a", ".", "b">> >>
    /\ metadata[1].imports = << <<"a", ".", "b">>, <<"b">> >>
    /\ metadata[1].import_count = 2

ReadFails == source_file.fail_at # NoFailure

NamesBeforeFailure ==
    UNION {Captured(pattern, Trimmed(source_file.lines[k])) :
              pattern \in IMPORT_PATTERNS(language),
              k \in {m \in 1..source_file.fail_at :
                        ~StartsWithMarker(source_file.lines[m])}}

Sent == 1..Len(requests_sent)

\* the name the file of each path is to be sent under
ExpectedUploadName(rel_path) ==
    CASE rel_path = <<"a", ".", "y", "a", "m", "l">> -> <<"a", ".", "t", "x", "t">>
      [] rel_path = <<"d", "/", "b", ".", "s", "h">> -> <<"b", ".", "t", "x", "t">>
      [] rel_path = <<"a", ".", "b", ".", "t", "o", "m", "l">> -> <<"a", ".", "b", ".", "t", "x", "t">>
      [] rel_path = <<"a", ".", "p", "y">> -> <<"a", ".", "p", "y">>

\* C28: a file whose extension is one of .yaml, .yml, .toml, .xml, .sh,
\* .bash, .zsh, .fish is sent under the name stem + '.txt', a file of any
\* other extension under its own name, and the metadata sent with it holds
\* the relative path of the file in the repository, true extension included.
C28_UploadNameAndMetadata ==
    \A k \in Sent :
       LET request == requests_sent[k] IN
       /\ request.path = up_files[request.file]
       /\ request.upload_name = ExpectedUploadName(request.path)
       /\ request.metadata.file_path = request.path

C28_Witness ==
    /\ up_pc = "over"
    /\ up_files = << <<"d", "/", "b", ".", "s", "h">>, <<"a", ".", "p", "y">> >>
    /\ Len(requests_sent) = 2
    /\ requests_sent[1].upload_name = <<"b", ".", "t", "x", "t">>
    /\ requests_sent[1].metadata.file_path = <<"d", "/", "b", ".", "s", "h">>
    /\ requests_sent[2].upload_name = <<"a", ".", "p", "y">>
    /\ up_stats.files_uploaded = 2

InterruptArrived == sent_at_interrupt # -1

\* C29: once an interrupt has arrived during the upload loop, be it in a
\* request, in the sleep of a retry or in the rate limiting sleep, no
\* further request is sent (no upload of a later file, no retry), no request
\* sent at any time is anything but the upload of a document (none deletes
\* or takes back a document), and the process has ended with exit code 130.
C29_InterruptStopsTheLoop ==
    /\ \A k \in Sent : requests_sent[k].kind = "POST /v3/documents"
    /\ InterruptArrived =>
          /\ Len(requests_sent) = sent_at_interrupt
          /\ up_pc = "exit"
          /\ up_exit = 130
          /\ \A k \in Sent : requests_sent[k].file <= up_i

C29_Witness ==
    /\ InterruptArrived
    /\ up_exit = 130
    /\ Len(up_files) = 2
    /\ up_i = 1
    /\ up_stats.files_uploaded = 1
    /\ Len(requests_sent) = 2
    /\ requests_sent[1].attempt = 0 /\ requests_sent[2].attempt = 1

\* C30: every HTTP attempt upload_document makes for a file, the attempts
\* after a 429, a 5xx or a failure of the transport included, sends the
\* complete content of the file.
C30_EveryAttemptSendsTheFile ==
    \A k \in Sent : requests_sent[k].body = <<"x", "y">>

(***************************************************************************)
(* C31  Two clients calling create_collection with the same name           *)
(***************************************************************************)
BothClientsDone == \A c \in Clients : client[c].pc = "done"

\* C31: however the requests of two clients calling create_collection with
\* the same name interleave, starting from a store with no collection of
\* that name, the store ends up holding at most one collection of that name.
C31_AtMostOneCollectionCreated ==
    client # <<>> => store <= 1

(***************************************************************************)
(* C32  The hashed key of a (repo_url, file_path) pair                     *)
(***************************************************************************)
\* C32: two calls of generate_document_id with different (repo_url,
\* file_path) pairs hash different key strings, also when the URL or the
\* path contains the separator ':'.
C32_DistinctPairsDistinctKeys ==
    \A a, b \in IdCalls :
       (a.repo_url # b.repo_url \/ a.file_path # b.file_path) => a.key # b.key

(***************************************************************************)
(* C33  Sleeping after the last attempt of _retry_request                  *)
(***************************************************************************)
\* the passes through the loop with attempt = API_RETRY_ATTEMPTS - 1
LastAttempts ==
    {k \in 1..Len(rr_trace) : rr_trace[k].attempt = API_RETRY_ATTEMPTS - 1}

\* C33: _retry_request does not sleep after its last permitted attempt,
\* whether that attempt ended in a 429, a 5xx or a transport failure: the
\* error is raised with no backoff sleep in between.
C33_NoSleepAfterLastAttempt ==
    \A k \in LastAttempts : rr_trace[k].slept = <<>>

(***************************************************************************)
(* C34, C35  A run whose file selection yields no files                    *)
(***************************************************************************)
\* filter_files has returned, and returned the empty list
NothingSelected == phases # <<>> /\ files = <<>>

\* C34: when file selection yields no files, load_repository returns at
\* once: files_found, files_uploaded and files_failed are 0, collection_id
\* is unset, no phase after the selection is entered, and no collection,
\* upload, status or graph request has been sent to the store.
C34_EmptySelectionReturnsAtOnce ==
    NothingSelected =>
        /\ pc \in {"returned", "exited"}
        /\ phases = <<"Select">>
        /\ stats.files_found = 0
        /\ stats.files_uploaded = 0
        /\ stats.files_failed = 0
        /\ stats.collection_id = None
        /\ issued \cap {"collections", "upload", "status", "graph"} = {}

C34_Witness ==
    /\ NothingSelected
    /\ pc = "returned"
    /\ stats = InitialStats
    /\ issued = {"login"}

\* C35: a run that selects no files ends with exit code 2, the failure
\* signal: its success rate is 0 / max(0, 1) = 0.
C35_EmptySelectionExitsWithFailure ==
    (NothingSelected /\ pc = "exited") => exit_code = 2

C35_Witness ==
    /\ NothingSelected
    /\ pc = "exited"
    /\ exit_code = 2
    /\ stats.files_found = 0

(***************************************************************************)
(* C36  The exit code of a fatal abort                                     *)
(***************************************************************************)
\* the exit codes main derives from a success rate (lines 408-414)
SuccessRateSignals ==
    {ExitCode([InitialStats EXCEPT !.files_found = found,
                                   !.files_uploaded = uploaded]) :
        found \in 0..MaxFiles, uploaded \in 0..MaxFiles}

\* main has exited because authenticate, the repository sync or the
\* collection setup raised
FatalAbort ==
    /\ pc = "exited"
    /\ token = None \/ phases = <<>> \/ CollectionSetupFailed

\* C36: the exit code of a run aborted by a fatal error is none of the exit
\* codes a success rate gives, so that the caller can tell the two apart.
C36_FatalAbortHasItsOwnSignal ==
    FatalAbort => exit_code \notin SuccessRateSignals

(***************************************************************************)
(* C37  wait_for_ingestion: what a round may change                        *)
(***************************************************************************)
\* wait_for_ingestion is running
Monitoring == pc \in {"wait_check", "wait_poll"}

\* the documents whose recorded status is 'success' or 'failed'
Settled == {d \in DOMAIN statuses : statuses[d] \in {"success", "failed"}}

\* the for loop stands at a document
AtDocument == pc = "wait_poll" /\ j <= Len(document_ids)

\* a step of wait_for_ingestion keeps every settled document as recorded;
\* the iteration of a settled document does nothing at all (no sleep of a
\* request, no change of all_done); the iteration of any document touches
\* the status of that document only, whether its check raised or not, and
\* goes on to the next document; the round ends after the last document only
StepOfMonitoring ==
    Monitoring =>
       /\ \A d \in Settled : d \in DOMAIN statuses' /\ statuses'[d] = statuses[d]
       /\ (AtDocument /\ document_ids[j] \in Settled) =>
              /\ statuses' = statuses
              /\ elapsed' = elapsed
              /\ all_done' = all_done
       /\ AtDocument =>
              /\ \A d \in DOMAIN statuses :
                    d # document_ids[j] =>
                       d \in DOMAIN statuses' /\ statuses'[d] = statuses[d]
              /\ DOMAIN statuses' \subseteq DOMAIN statuses \cup {document_ids[j]}
              /\ pc' = "wait_poll"
              /\ j' = j + 1
       /\ (pc = "wait_poll" /\ pc' # "wait_poll") => j > Len(document_ids)

\* the keys of statuses, and of the map returned, are tracked ids
KeysAreTracked ==
    /\ DOMAIN statuses \subseteq Range(document_ids)
    /\ ingestion_statuses # <<>> =>
          DOMAIN ingestion_statuses[1] \subseteq Range(document_ids)

\* C37: in wait_for_ingestion, a document recorded as success or failed is
\* not polled again and keeps its recorded status; a status check that
\* raises leaves the recorded statuses of the other documents as they are
\* and the loop goes on to the remaining documents of the round; the keys of
\* the map returned are ids that were tracked.
C37_SettledDocumentsStaySettled ==
    /\ []KeysAreTracked
    /\ [][StepOfMonitoring]_vars

\* a later round begins with the first document settled and the second one
\* without a recorded status: every check of it so far has raised
C37_Witness ==
    /\ AtDocument
    /\ j = 1
    /\ Len(document_ids) = 2
    /\ statuses = (document_ids[1] :> "failed")
    /\ elapsed >= PollInterval

(***************************************************************************)
(* C38  What constructing and using a FileFilter changes                   *)
(***************************************************************************)
\* the lists the constructor was given or found are as they were before it
ListsUntouched == objects = ListObjects(arg_patterns)

\* C38: constructing a FileFilter changes neither config.IGNORE_PATTERNS nor
\* the list the caller passed as ignore_patterns, also when .gitignore adds
\* rules to the filter's own rule set; and once built, the rule set is not
\* modified by _is_ignored.
C38_ConstructionLeavesListsAlone ==
    /\ [](fi_pc = "built" => ListsUntouched)
    /\ [][fi_pc = "built" => ignore_patterns' = ignore_patterns]_vars

(***************************************************************************)
(* C39  A failure of the graph extraction                                  *)
(***************************************************************************)
\* pull_knowledge_graph, get_graph_entities or get_graph_relationships raised
GraphRequestFailed == kg_error \in {"pull", "entities", "relationships"}

\* the files the upload loop counted as uploaded
CountedUploaded == {k \in 1..Len(processed) : processed[k].uploaded}

\* C39: when graph extraction is requested and one of its requests fails,
\* the failure is caught: load_repository goes on to the summary and
\* returns statistics with kg_entities = kg_relationships = 0 and with the
\* upload counters as the upload loop left them; when graph extraction is
\* not requested, no graph request is sent.
C39_GraphFailureIsCaught ==
    /\ GraphRequestFailed =>
          /\ extract_kg
          /\ pc \in {"summarize", "returned", "exited"}
          /\ stats.kg_entities = 0
          /\ stats.kg_relationships = 0
          /\ stats.files_found = Len(files)
          /\ stats.files_uploaded = Cardinality(CountedUploaded)
          /\ stats.files_failed = Len(files) - Cardinality(CountedUploaded)
          /\ stats.collection_id = CollectionId
          /\ pc \in {"returned", "exited"} => phases[Len(phases)] = "Summarize"
          /\ pc = "exited" => exit_code = ExitCode(stats)
    /\ ~extract_kg => ("graph" \notin issued /\ kg_error = "")

C39_Witness ==
    /\ kg_error = "relationships"
    /\ pc = "returned"
    /\ stats.files_uploaded = 1
    /\ stats.files_failed = 1
    /\ stats.kg_entities = 0

====
